---- MODULE Spec2Model ----
(***************************************************************************)
(* Emulator lifecycle, registry, backdoor calls, the value-polling         *)
(* primitive and the device (collection) launchers of the IOC test         *)
(* framework (utils/emulator_launcher.py, utils/lewis_launcher.py,         *)
(* utils/channel_access.py, utils/device_launcher.py).                     *)
(*                                                                         *)
(* Python's None is the string "None"; the tri-state _connected flag is    *)
(* "None" / "True" / "False".  A process handle is "None" (never spawned), *)
(* "running", "exited" (ended by itself) or "terminated" (ended by a       *)
(* terminate() call).  A file handle is "None", "open" or "closed".        *)
(***************************************************************************)
EXTENDS Integers, Sequences, FiniteSets, TLC

None == "None"

(***************************************************************************)
(* Bounds                                                                  *)
(***************************************************************************)
MaxLaunchers == 2      \* launchers constructed in one run
MaxDescendants == 2    \* live descendants of a command-line emulator
MaxSent == 3           \* simulation commands recorded per launcher

(***************************************************************************)
(* The launcher objects of a run                                           *)
(***************************************************************************)
LewisLaunchers == {"lewis1", "lewis2"}
CommandLineLaunchers == {"cmd", "beckhoff"}
NullLaunchers == {"null"}
EmulatorLaunchers == LewisLaunchers \cup CommandLineLaunchers \cup NullLaunchers
MultiLaunchers == {"multi"}
LegacyLewisLaunchers == {"oldLewis"}
LewisNones == {"oldNone"}
LegacyLaunchers == LegacyLewisLaunchers \cup LewisNones
TopLaunchers == EmulatorLaunchers \cup MultiLaunchers \cup LegacyLaunchers

\* MultiLewisLauncher.emulator_launchers, in dict (insertion) order
emulator_launchers(m) == <<"child1", "child2">>
ChildLaunchers == {"child1", "child2"}

\* every object with _process / _logFile / _connected attributes
Objects == EmulatorLaunchers \cup LegacyLaunchers \cup ChildLaunchers
AllLewis == LewisLaunchers \cup ChildLaunchers \cup LegacyLewisLaunchers

\* the registry key of a launcher: _emulator_id (defaults to the device
\* name), test_name for a MultiLewisLauncher.  lewis1 and lewis2 are two
\* launchers for the same device; oldLewis / oldNone are keyed likewise.
Keys == {"A", "B", "C", "T"}
_emulator_id(l) ==
    CASE l \in {"lewis1", "lewis2", "oldLewis"} -> "A"
      [] l \in {"cmd", "beckhoff", "oldNone"} -> "B"
      [] l = "null" -> "C"
      [] OTHER -> "T"

\* options["emulator_wait_to_finish"]
wait(l) == l = "beckhoff"

VARIABLES
    constructed,       \* launchers built by the test set-up
    phase,             \* per top-level launcher: position of its with-block
    _process,          \* per object: the process handle
    _logFile,          \* per object: the log file handle
    _connected,        \* per object: the tri-state connected flag
    descendants,       \* per command-line launcher: live child processes
    terminateCalls,    \* per object: terminate() calls on its main process
    closeCalls,        \* per object: completed or attempted _close calls
    closeRaised,       \* per object: what its last _close call raised
    RunningEmulators,  \* EmulatorRegister.RunningEmulators
    LewisRunning,      \* LewisRegister.RunningEmulators (legacy module)
    bodyExc,           \* per top-level launcher: what the with-body raised
    raised,            \* per top-level launcher: what left __enter__/__exit__
    sent,              \* per object: simulation commands handed to lewis-control
    lastCall,          \* the last backdoor call and how it ended
    deviceState,       \* per object: the value last set on its emulated device
    call,              \* the polling call in progress: primitive, launcher, timeout argument
    pc,                \* position inside the polling primitive
    timeout,           \* the timeout in force, in ticks
    now,               \* time() - start_time, in ticks
    current_time,      \* current_time - start_time, in ticks
    lambda_value,      \* what the last wait_for_lambda() returned
    lastEval,          \* the last evaluation: start, duration, in the loop?, value read
    tookInLoop,        \* duration of the last evaluation made inside the loop
    evaluations,       \* wait_for_lambda() calls so far
    sleeps,            \* sleep(0.5) calls so far
    unreachable,       \* evaluations that raised the unable-to-connect exception
    result             \* how the call ended

VARIABLES
    devices,           \* the list handed to device_collection_launcher
    dpc,               \* position inside device_collection_launcher
    stack,             \* the ExitStack's callbacks: members entered, not yet exited
    entered,           \* members whose enter_context returned, in order
    exited,            \* members whose __exit__ the ExitStack called, in order
    events,            \* every __enter__ / __exit__ call on an emulator or IOC launcher
    exc_details,       \* the exception the unwinding carries
    firstFailure,      \* the first exception raised in the run
    propagated         \* the exception that left device_collection_launcher

VARIABLES
    request,           \* the backdoor method called last and its arguments
    command,           \* the argument vector it handed to backdoor_command
    cpc,               \* position inside backdoor_command
    polls,             \* the loop index i of backdoor_command
    companion,         \* the lewis-control companion process (p)
    killed,            \* was p.terminate() called?
    output,            \* the lines read from the companion's stdout
    ret                \* how the backdoor method ended

VARIABLES
    children,          \* what proc.children(recursive=True) returned to _close
    kpc,               \* position inside CommandLineEmulatorLauncher._close
    target,            \* the process _close is handling
    closeTrace         \* the calls _close made on processes and on the log file

VARIABLES
    overTime           \* the last assert_pv_value_over_time call and how it ended

VARIABLES
    simpc,             \* position of backdoor_simulate_disconnected_device
    propertySets,      \* the sets it issued for emulator_property, in order
    blocks,            \* with-blocks of it entered so far
    simRaised          \* what left its last with-block

lifeVars == <<constructed, phase, _process, _logFile, _connected, descendants,
              terminateCalls, closeCalls, RunningEmulators, LewisRunning,
              bodyExc, raised, closeRaised>>
callVars == <<sent, lastCall, deviceState>>
waitVars == <<call, pc, timeout, now, current_time, lambda_value, lastEval,
              tookInLoop, evaluations, sleeps, unreachable, result>>
devVars == <<devices, dpc, stack, entered, exited, events, exc_details,
             firstFailure, propagated>>
companionVars == <<request, command, cpc, polls, companion, killed, output, ret>>
closeVars == <<children, kpc, target, closeTrace>>
overTimeVars == <<overTime>>
simVars == <<simpc, propertySets, blocks, simRaised>>
notDevVars == <<companionVars, closeVars, overTimeVars, simVars>>
notCompanionVars == <<devVars, closeVars, overTimeVars, simVars>>
notCloseVars == <<devVars, companionVars, overTimeVars, simVars>>
notOverTimeVars == <<devVars, companionVars, closeVars, simVars>>
notSimVars == <<devVars, companionVars, closeVars, overTimeVars>>
restVars == <<devVars, companionVars, closeVars, overTimeVars, simVars>>
vars == <<lifeVars, callVars, waitVars, restVars>>


(***************************************************************************)
(* EmulatorRegister / LewisRegister: a dict from key to launcher.  An      *)
(* absent key is the value None (dict.get returns None for it).            *)
(***************************************************************************)
get_running(reg, name) == reg[name]

add_emulator(reg, name, emulator) == [reg EXCEPT ![name] = emulator]
\* variant: removing an absent key is not an error
remove_raises_never(reg, name) == FALSE

\* del RunningEmulators[name] raises KeyError when the key is absent
remove_raises(reg, name) == reg[name] = None

\* variant: the entry is left in the dict
remove_emulator_keeps(reg, name) == reg

remove_emulator(reg, name) == [reg EXCEPT ![name] = None]

(***************************************************************************)
(* _open of one object.  The outcome is the environment's: the log file    *)
(* cannot be created ("log_fails"), the process cannot be spawned          *)
(* ("spawn_fails"), or both succeed ("ok").  Both failures raise OSError.  *)
(***************************************************************************)
OpenOutcomes(o) ==
    IF o \in NullLaunchers \cup LewisNones THEN {"ok"}
    ELSE {"ok", "log_fails", "spawn_fails"}

\* open(self._log_filename(), "w") is the first resource taken
LogAfterOpen(o, outcome) ==
    IF o \in NullLaunchers \cup LewisNones \/ outcome \in {"log_fails", "not_reached"}
    THEN _logFile[o] ELSE "open"

\* subprocess.Popen / psutil.Popen, then process.wait() when wait is set
ProcessAfterOpen(o, outcome) ==
    IF o \in NullLaunchers \cup LewisNones \/ outcome # "ok" THEN _process[o]
    ELSE IF o \in CommandLineLaunchers /\ wait(o) THEN "exited"
    ELSE "running"

\* self._connected = True is the last statement of the Lewis _open
ConnectedAfterOpen(o, outcome) ==
    IF o \in AllLewis /\ outcome = "ok" THEN "True" ELSE _connected[o]

(***************************************************************************)
(* _close of one object.                                                   *)
(***************************************************************************)
\* CommandLineEmulatorLauncher._close: assert proc is not None
close_raises(o) == o \in CommandLineLaunchers /\ _process[o] = None

\* Popen.terminate() / psutil terminate(): ends a running process
Terminated(p) == IF p = "running" THEN "terminated" ELSE p

\* is terminate() called on the main process?
TerminateCalled(o) ==
    CASE o \in AllLewis -> _process[o] # None
      [] o \in CommandLineLaunchers -> ~close_raises(o) /\ _process[o] = "running"
      [] OTHER -> FALSE

ProcessAfterClose(o) ==
    IF TerminateCalled(o) THEN Terminated(_process[o]) ELSE _process[o]

LogAfterClose(o) ==
    IF o \in AllLewis \cup CommandLineLaunchers
       /\ ~close_raises(o) /\ _logFile[o] # None
    THEN "closed" ELSE _logFile[o]

\* every child found by proc.children(recursive=True) is terminated and waited
DescendantsAfterClose(o) ==
    IF o \in CommandLineLaunchers /\ ~close_raises(o) THEN 0 ELSE descendants[o]

\* the primed object state after _close ran on every object in S
CloseAll(S) ==
    /\ _process' = [o \in Objects |-> IF o \in S THEN ProcessAfterClose(o) ELSE _process[o]]
    /\ _logFile' = [o \in Objects |-> IF o \in S THEN LogAfterClose(o) ELSE _logFile[o]]
    /\ descendants' = [o \in Objects |-> IF o \in S THEN DescendantsAfterClose(o) ELSE descendants[o]]
    /\ terminateCalls' = [o \in Objects |->
          IF o \in S /\ TerminateCalled(o) THEN terminateCalls[o] + 1 ELSE terminateCalls[o]]
    /\ closeCalls' = [o \in Objects |-> IF o \in S THEN closeCalls[o] + 1 ELSE closeCalls[o]]
    /\ closeRaised' = [o \in Objects |->
          IF o \in S THEN (IF close_raises(o) THEN "AssertionError" ELSE None)
          ELSE closeRaised[o]]
    /\ UNCHANGED _connected


(***************************************************************************)
(* Initial state: the launchers of the run are constructed, none entered.  *)
(***************************************************************************)
LifeInit ==
    /\ constructed \in {S \in SUBSET TopLaunchers : Cardinality(S) \in 1..MaxLaunchers}
    /\ phase = [l \in TopLaunchers |-> "new"]
    /\ _process = [o \in Objects |-> None]
    /\ _logFile = [o \in Objects |-> None]
    /\ _connected = [o \in Objects |-> None]
    /\ descendants = [o \in Objects |-> 0]
    /\ terminateCalls = [o \in Objects |-> 0]
    /\ closeCalls = [o \in Objects |-> 0]
    /\ closeRaised = [o \in Objects |-> None]
    /\ RunningEmulators = [k \in Keys |-> None]
    /\ LewisRunning = [k \in Keys |-> None]
    /\ bodyExc = [l \in TopLaunchers |-> None]
    /\ raised = [l \in TopLaunchers |-> None]

CallInit ==
    /\ sent = [o \in Objects |-> <<>>]
    /\ lastCall = [launcher |-> None, op |-> None, outcome |-> None]
    /\ deviceState = [o \in Objects |-> None]

(***************************************************************************)
(* EmulatorLauncher.__enter__: self._open(), then add_emulator.  When      *)
(* _open raises, the exception leaves __enter__ and nothing is registered. *)
(* d is the number of child processes the spawned command starts.          *)
(***************************************************************************)
EmulatorLauncher_enter(l, outcome, d) ==
    /\ l \in constructed \cap EmulatorLaunchers
    /\ phase[l] = "new"
    /\ outcome \in OpenOutcomes(l)
    /\ d \in 0..MaxDescendants
    /\ (d > 0) => (l \in CommandLineLaunchers /\ outcome = "ok")
    /\ _process' = [_process EXCEPT ![l] = ProcessAfterOpen(l, outcome)]
    /\ _logFile' = [_logFile EXCEPT ![l] = LogAfterOpen(l, outcome)]
    /\ _connected' = [_connected EXCEPT ![l] = ConnectedAfterOpen(l, outcome)]
    /\ descendants' = [descendants EXCEPT ![l] = d]
    /\ IF outcome = "ok"
       THEN /\ RunningEmulators' = add_emulator(RunningEmulators, _emulator_id(l), l)
            /\ phase' = [phase EXCEPT ![l] = "open"]
            /\ UNCHANGED raised
       ELSE /\ phase' = [phase EXCEPT ![l] = "failed"]
            /\ raised' = [raised EXCEPT ![l] = "OSError"]
            /\ UNCHANGED RunningEmulators
    /\ UNCHANGED <<constructed, terminateCalls, closeCalls, closeRaised, LewisRunning, bodyExc, callVars, waitVars, restVars>>

(***************************************************************************)
(* EmulatorLauncher.__exit__: self._close(), then remove_emulator.  It     *)
(* returns None, so the body's exception exc goes on propagating unless    *)
(* __exit__ itself raises.                                                 *)
(***************************************************************************)
ExitRaises(l, exc) ==
    IF close_raises(l) THEN "AssertionError"
    ELSE IF remove_raises(RunningEmulators, _emulator_id(l)) THEN "KeyError"
    ELSE exc

EmulatorLauncher_exit(l, exc) ==
    /\ l \in constructed \cap EmulatorLaunchers
    /\ phase[l] = "open"
    /\ exc \in {None, "BodyError"}
    /\ CloseAll({l})
    /\ bodyExc' = [bodyExc EXCEPT ![l] = exc]
    /\ phase' = [phase EXCEPT ![l] = "closed"]
    /\ raised' = [raised EXCEPT ![l] = ExitRaises(l, exc)]
    /\ RunningEmulators' =
          IF close_raises(l) \/ remove_raises(RunningEmulators, _emulator_id(l))
          THEN RunningEmulators
          ELSE remove_emulator(RunningEmulators, _emulator_id(l))
    /\ UNCHANGED <<constructed, LewisRunning, callVars, waitVars, restVars>>

(***************************************************************************)
(* _close called on a launcher whose _open raised partway: the with        *)
(* statement never runs __exit__ for it, so the call is the cleaning-up    *)
(* caller's.  The log file may be open and the process never created.      *)
(***************************************************************************)
EmulatorLauncher_close(l) ==
    /\ l \in constructed \cap EmulatorLaunchers
    /\ phase[l] = "failed"
    /\ CloseAll({l})
    /\ phase' = [phase EXCEPT ![l] = "failed_closed"]
    /\ UNCHANGED <<constructed, RunningEmulators, LewisRunning, bodyExc, raised,
                   callVars, waitVars, restVars>>

(***************************************************************************)
(* MultiLewisLauncher.__enter__ / __exit__: _open and _close loop over the *)
(* children in order.  n children open before child n+1 fails with         *)
(* outcome; n = number of children means every child opened.               *)
(***************************************************************************)
ChildOutcome(m, i, n, outcome) ==
    IF i <= n THEN "ok" ELSE IF i = n + 1 THEN outcome ELSE "not_reached"

ChildIndex(m, o) == CHOOSE i \in 1..Len(emulator_launchers(m)) : emulator_launchers(m)[i] = o

MultiLewisLauncher_enter(m, n, outcome) ==
    /\ m \in constructed \cap MultiLaunchers
    /\ phase[m] = "new"
    /\ n \in 0..Len(emulator_launchers(m))
    /\ outcome \in {"ok", "log_fails", "spawn_fails"}
    /\ (outcome = "ok") <=> (n = Len(emulator_launchers(m)))
    /\ LET kids == {emulator_launchers(m)[i] : i \in 1..Len(emulator_launchers(m))}
           oc(o) == ChildOutcome(m, ChildIndex(m, o), n, outcome)
       IN  /\ _process' = [o \in Objects |->
                 IF o \in kids THEN ProcessAfterOpen(o, oc(o)) ELSE _process[o]]
           /\ _logFile' = [o \in Objects |->
                 IF o \in kids THEN LogAfterOpen(o, oc(o)) ELSE _logFile[o]]
           /\ _connected' = [o \in Objects |->
                 IF o \in kids THEN ConnectedAfterOpen(o, oc(o)) ELSE _connected[o]]
    /\ IF outcome = "ok"
       THEN /\ RunningEmulators' = add_emulator(RunningEmulators, _emulator_id(m), m)
            /\ phase' = [phase EXCEPT ![m] = "open"]
            /\ UNCHANGED raised
       ELSE /\ phase' = [phase EXCEPT ![m] = "failed"]
            /\ raised' = [raised EXCEPT ![m] = "OSError"]
            /\ UNCHANGED RunningEmulators
    /\ UNCHANGED <<constructed, descendants, terminateCalls, closeCalls, closeRaised,
                   LewisRunning, bodyExc, callVars, waitVars, restVars>>

MultiLewisLauncher_exit(m, exc) ==
    /\ m \in constructed \cap MultiLaunchers
    /\ phase[m] = "open"
    /\ exc \in {None, "BodyError"}
    /\ CloseAll({emulator_launchers(m)[i] : i \in 1..Len(emulator_launchers(m))})
    /\ bodyExc' = [bodyExc EXCEPT ![m] = exc]
    /\ phase' = [phase EXCEPT ![m] = "closed"]
    /\ raised' = [raised EXCEPT ![m] =
          IF remove_raises(RunningEmulators, _emulator_id(m)) THEN "KeyError" ELSE exc]
    /\ RunningEmulators' =
          IF remove_raises(RunningEmulators, _emulator_id(m))
          THEN RunningEmulators
          ELSE remove_emulator(RunningEmulators, _emulator_id(m))
    /\ UNCHANGED <<constructed, LewisRunning, callVars, waitVars, restVars>>

(***************************************************************************)
(* The legacy module utils/lewis_launcher.py: LewisLauncher and LewisNone  *)
(* register in LewisRegister, which has no remove operation.               *)
(***************************************************************************)
lewis_launcher_enter(l, outcome) ==
    /\ l \in constructed \cap LegacyLaunchers
    /\ phase[l] = "new"
    /\ outcome \in OpenOutcomes(l)
    /\ _process' = [_process EXCEPT ![l] = ProcessAfterOpen(l, outcome)]
    /\ _logFile' = [_logFile EXCEPT ![l] = LogAfterOpen(l, outcome)]
    /\ _connected' = [_connected EXCEPT ![l] = ConnectedAfterOpen(l, outcome)]
    /\ IF outcome = "ok"
       THEN /\ LewisRunning' = add_emulator(LewisRunning, _emulator_id(l), l)
            /\ phase' = [phase EXCEPT ![l] = "open"]
            /\ UNCHANGED raised
       ELSE /\ phase' = [phase EXCEPT ![l] = "failed"]
            /\ raised' = [raised EXCEPT ![l] = "OSError"]
            /\ UNCHANGED LewisRunning
    /\ UNCHANGED <<constructed, descendants, terminateCalls, closeCalls, closeRaised,
                   RunningEmulators, bodyExc, callVars, waitVars, restVars>>

\* LewisLauncher.__exit__ is self._close(); LewisNone.__exit__ is pass
lewis_launcher_exit(l, exc) ==
    /\ l \in constructed \cap LegacyLaunchers
    /\ phase[l] = "open"
    /\ exc \in {None, "BodyError"}
    /\ CloseAll(IF l \in LegacyLewisLaunchers THEN {l} ELSE {})
    /\ bodyExc' = [bodyExc EXCEPT ![l] = exc]
    /\ phase' = [phase EXCEPT ![l] = "closed"]
    /\ raised' = [raised EXCEPT ![l] = exc]
    /\ UNCHANGED <<constructed, RunningEmulators, LewisRunning, callVars, waitVars, restVars>>

(***************************************************************************)
(* The environment: a spawned process, or a child of it, ends by itself.   *)
(***************************************************************************)
ProcessExits(o) ==
    /\ o \in Objects
    /\ _process[o] = "running"
    /\ _process' = [_process EXCEPT ![o] = "exited"]
    /\ UNCHANGED <<constructed, phase, _logFile, _connected, descendants, terminateCalls,
                   closeCalls, closeRaised, RunningEmulators, LewisRunning, bodyExc, raised, callVars, waitVars, restVars>>

DescendantExits(o) ==
    /\ o \in CommandLineLaunchers
    /\ descendants[o] > 0
    /\ descendants' = [descendants EXCEPT ![o] = descendants[o] - 1]
    /\ UNCHANGED <<constructed, phase, _process, _logFile, _connected, terminateCalls,
                   closeCalls, closeRaised, RunningEmulators, LewisRunning, bodyExc, raised, callVars, waitVars, restVars>>


(***************************************************************************)
(* Backdoor operations.  A LewisLauncher hands every command to a          *)
(* lewis-control companion process (backdoor_command); sent records the    *)
(* simulation commands that reached a companion.                           *)
(***************************************************************************)
Ops == {"get", "set", "run", "connect", "disconnect"}

\* with backdoor_command, which only a LewisLauncher overrides
AllOps == Ops \cup {"command"}

\* the values a set can write to the emulated device
SetValues == {"v1"}

\* backdoor_command before the companion is spawned: _control_port and the
\* log file exist only after _open, and writing to a closed file raises
backdoor_command_error(o) ==
    CASE _logFile[o] = None -> "AttributeError"
      [] _logFile[o] = "closed" -> "ValueError"
      [] OTHER -> None

\* variant: the command is issued whatever the flag says
DisconnectSends_always(o) == TRUE

\* if self._connected:
DisconnectSends(o) == _connected[o] = "True"

\* if not self._connected:
ConnectSends(o) == _connected[o] # "True"

NeedsCommand(o, op) ==
    CASE op = "disconnect" -> DisconnectSends(o)
      [] op = "connect" -> ConnectSends(o)
      [] OTHER -> TRUE

\* spawn is the environment's: can the companion process be created?
LewisBackdoorOutcome(o, op, spawn) ==
    IF ~NeedsCommand(o, op) THEN "returned"
    ELSE IF backdoor_command_error(o) # None THEN backdoor_command_error(o)
    ELSE IF spawn = "spawn_fails" THEN "OSError"
    ELSE "returned"

\* variant: the call returns quietly, as on a NullEmulatorLauncher
CommandLineBackdoorOutcome_silent(o, op) == "returned"

\* raise ValueError("Cannot use backdoor for an arbitrary command line launcher")
\* backdoor_command is the base class's: raise NotImplementedError
CommandLineBackdoorOutcome(o, op) ==
    IF op = "command" THEN "NotImplementedError" ELSE "ValueError"

\* NullEmulatorLauncher: pass / return "" / return []
\* backdoor_command is the base class's: raise NotImplementedError
NullBackdoorOutcome(o, op) ==
    IF op = "command" THEN "NotImplementedError" ELSE "returned"

BackdoorOutcome(o, op, spawn) ==
    CASE o \in AllLewis -> LewisBackdoorOutcome(o, op, spawn)
      [] o \in CommandLineLaunchers -> CommandLineBackdoorOutcome(o, op)
      [] OTHER -> NullBackdoorOutcome(o, op)

SimulationCommand(op) == IF op = "connect" THEN "connect_device" ELSE "disconnect_device"

\* one backdoor call on object o
backdoor(o, op, spawn) ==
    /\ op \in AllOps
    /\ spawn \in {"ok", "spawn_fails"}
    /\ LET outcome == BackdoorOutcome(o, op, spawn)
           toggles == o \in AllLewis /\ op \in {"connect", "disconnect"}
           sends == toggles /\ NeedsCommand(o, op) /\ outcome = "returned"
       IN  /\ sends => Len(sent[o]) < MaxSent
           /\ lastCall' = [launcher |-> o, op |-> op, outcome |-> outcome]
           /\ sent' = IF sends THEN [sent EXCEPT ![o] = Append(@, SimulationCommand(op))]
                      ELSE sent
           /\ _connected' =
                 IF toggles /\ outcome = "returned"
                 THEN [_connected EXCEPT ![o] = IF op = "connect" THEN "True" ELSE "False"]
                 ELSE _connected
           /\ IF o \in AllLewis /\ op = "set" /\ outcome = "returned"
              THEN \E value \in SetValues : deviceState' = [deviceState EXCEPT ![o] = value]
              ELSE UNCHANGED deviceState
    /\ UNCHANGED <<constructed, phase, _process, _logFile, descendants, terminateCalls,
                   closeCalls, closeRaised, RunningEmulators, LewisRunning, bodyExc, raised, waitVars, restVars>>

\* a backdoor call on a launcher the test holds, in any phase of its life
Backdoor(l, op, spawn) ==
    /\ l \in constructed \cap (EmulatorLaunchers \cup LegacyLewisLaunchers)
    /\ backdoor(l, op, spawn)

\* the launcher addresses tried: those of the children and one more
Addresses(m) == 1..(Len(emulator_launchers(m)) + 1)

\* variant: every call goes to the first child
Route_first(m, launcher_address) == emulator_launchers(m)[1]

\* self.emulator_launchers[launcher_address]
Route(m, launcher_address) == emulator_launchers(m)[launcher_address]

\* MultiLewisLauncher.backdoor_*: routed to emulator_launchers[launcher_address];
\* the dict lookup raises KeyError for an address without a child
MultiBackdoor(m, launcher_address, op, spawn) ==
    /\ m \in constructed \cap MultiLaunchers
    /\ launcher_address \in Addresses(m)
    /\ op \in Ops
    /\ IF launcher_address \in 1..Len(emulator_launchers(m))
       THEN backdoor(Route(m, launcher_address), op, spawn)
       ELSE /\ spawn = "ok"
            /\ lastCall' = [launcher |-> m, op |-> op, outcome |-> "KeyError"]
            /\ UNCHANGED <<lifeVars, sent, deviceState, waitVars, restVars>>


(***************************************************************************)
(* The value-polling primitive: EmulatorLauncher._wait_for_emulator_lambda *)
(* ("emulator") and ChannelAccess._wait_for_pv_lambda ("pv").  One tick is *)
(* 0.1 s.  An evaluation of wait_for_lambda takes time (for a Lewis        *)
(* launcher it runs a companion process) and ends in one of:               *)
(*   satisfied        returns None                                         *)
(*   unsatisfied      returns a message holding the value read             *)
(*   predicate_raises the wrapper turns the predicate's exception into a   *)
(*                    message holding the value read                       *)
(*   unreachable      raises UnableToConnectTo{Emulator,PV}Exception       *)
(*   error            raises any other exception                           *)
(***************************************************************************)
PollTicks == 5           \* sleep(0.5)
DefaultTimeout == 50     \* default_timeout = 5
MaxTimeout == 11         \* largest explicit timeout tried
MaxEvalTicks == 6        \* longest evaluation tried

Values == {"v1", "v2"}
Outcomes == {"satisfied", "unsatisfied", "predicate_raises", "unreachable", "error"}
EvalTicks == {0, 1, MaxEvalTicks}
Timeouts == -1..MaxTimeout

NoValue == [kind |-> "unset", value |-> None]
NoEval == [at |-> 0, took |-> 0, inLoop |-> FALSE, read |-> None, outcome |-> None]
NoResult == [kind |-> "running", value |-> None]

WaitIdle ==
    /\ call = [primitive |-> None, isLewis |-> FALSE, given |-> FALSE, timeout |-> 0]
    /\ pc = "idle"
    /\ timeout = 0
    /\ now = 0
    /\ current_time = 0
    /\ lambda_value = NoValue
    /\ lastEval = NoEval
    /\ tookInLoop = 0
    /\ evaluations = 0
    /\ sleeps = 0
    /\ unreachable = 0
    /\ result = NoResult

\* what wait_for_lambda() returns when it returns
Returned(outcome, v) ==
    CASE outcome = "satisfied" -> [kind |-> "None", value |-> None]
      [] outcome = "unsatisfied" -> [kind |-> "message", value |-> v]
      [] OTHER -> [kind |-> "exception_message", value |-> v]

\* how the assertion built on the primitive ends, given the primitive's return
Reported(value) ==
    IF value.kind = "None" THEN [kind |-> "success", value |-> None]
    ELSE [kind |-> "AssertionError", value |-> value.value]

\* if timeout is None: a Lewis launcher and ChannelAccess have _default_timeout;
\* assert isinstance(self, LewisLauncher) fails for every other launcher
\* given is FALSE when the caller passes timeout=None
HasTimeout(primitive, isLewis, given) == given \/ primitive = "pv" \/ isLewis

EffectiveTimeout(given, t) == IF given THEN t ELSE DefaultTimeout

\* while current_time - start_time < timeout:
LoopCondition(current, t) == current < t

\* start_time = time(); current_time = start_time; the timeout default
WaitStart(primitive, isLewis, given, t) ==
    /\ pc = "idle"
    /\ primitive \in {"emulator", "pv"}
    /\ isLewis \in BOOLEAN
    /\ (primitive = "pv") => ~isLewis
    /\ given \in BOOLEAN
    /\ t \in Timeouts
    /\ ~given => t = 0
    /\ call' = [primitive |-> primitive, isLewis |-> isLewis, given |-> given, timeout |-> t]
    /\ IF HasTimeout(primitive, isLewis, given)
       THEN /\ timeout' = EffectiveTimeout(given, t)
            /\ pc' = IF LoopCondition(0, EffectiveTimeout(given, t)) THEN "poll" ELSE "last"
            /\ UNCHANGED result
       ELSE /\ pc' = "done"
            /\ result' = [kind |-> "NoDefaultTimeout", value |-> None]
            /\ UNCHANGED timeout
    /\ UNCHANGED <<now, current_time, lambda_value, lastEval, tookInLoop,
                   evaluations, sleeps, unreachable, lifeVars, callVars, restVars>>
\* variant: the message made from the predicate's exception ends the wait
PollEndsWait_PredicateFails(primitive, outcome) ==
    outcome \in {"satisfied", "error", "predicate_raises"}

\* variant: _wait_for_pv_lambda has no except Exception clause that returns
PollEndsWait_PvErrorRetried(primitive, outcome) ==
    outcome = "satisfied" \/ (outcome = "error" /\ primitive = "emulator")

\* variant: a None result does not leave the loop
PollEndsWait_NoEarlyReturn(primitive, outcome) == outcome = "error"

\* variant: the unable-to-connect exception is not caught
PollEndsWait_Uncaught(primitive, outcome) == outcome \in {"satisfied", "error", "unreachable"}

\* variant: a message returned inside the loop is returned at once
PollEndsWait_FailFast(primitive, outcome) == outcome \in {"satisfied", "error", "unsatisfied"}

\* does an evaluation made inside the loop end the call?
\*   if lambda_value is None: return lambda_value
\*   except UnableToConnect...: pass
\*   except Exception as e: return "Exception in function ..."   (pv only)
\* any other exception leaves the emulator primitive
PollEndsWait(primitive, outcome) == outcome \in {"satisfied", "error"}

\* how a call that ends inside the loop ends
PollResult(primitive, outcome, v) ==
    CASE outcome = "error" /\ primitive = "pv" ->
            [kind |-> "AssertionError", value |-> "Exception in function"]
      [] outcome = "error" -> [kind |-> "Error", value |-> None]
      [] outcome = "unreachable" -> [kind |-> "UnableToConnect", value |-> None]
      [] OTHER -> Reported(Returned(outcome, v))

\* one pass of the loop body up to the sleep
Poll(outcome, v, d) ==
    /\ pc = "poll"
    /\ outcome \in Outcomes
    /\ v \in Values
    /\ d \in EvalTicks
    /\ now' = now + d
    /\ evaluations' = evaluations + 1
    /\ lastEval' = [at |-> now, took |-> d, inLoop |-> TRUE, read |-> v, outcome |-> outcome]
    /\ tookInLoop' = d
    /\ unreachable' = IF outcome = "unreachable" THEN unreachable + 1 ELSE unreachable
    /\ lambda_value' = IF outcome \in {"unreachable", "error"} THEN lambda_value
                       ELSE Returned(outcome, v)
    /\ IF PollEndsWait(call.primitive, outcome)
       THEN /\ pc' = "done"
            /\ result' = PollResult(call.primitive, outcome, v)
       ELSE /\ pc' = "sleep"
            /\ UNCHANGED result
    /\ UNCHANGED <<call, timeout, current_time, sleeps, lifeVars, callVars, restVars>>

\* sleep(0.5); current_time = time(); then the loop condition again
Sleep ==
    /\ pc = "sleep"
    /\ now' = now + PollTicks
    /\ current_time' = now + PollTicks
    /\ sleeps' = sleeps + 1
    /\ pc' = IF LoopCondition(now + PollTicks, timeout) THEN "poll" ELSE "last"
    /\ UNCHANGED <<call, timeout, lambda_value, lastEval, tookInLoop, evaluations,
                   unreachable, result, lifeVars, callVars, restVars>>

\* variant: the value kept from the loop is returned instead of a last try
LastTryValue_kept(kept, fresh) == kept

\* what the call returns after the loop: return wait_for_lambda()
LastTryValue(kept, fresh) == fresh

\* variant: the last try turns the unable-to-connect exception into a message
LastTryResult_message(outcome, kept, v) ==
    CASE outcome = "error" -> [kind |-> "Error", value |-> None]
      [] OTHER -> Reported(LastTryValue(kept, Returned(outcome, v)))

\* how the call ends after the loop: the last try is outside any try
\* block, so whatever wait_for_lambda() raises leaves the primitive
LastTryResult(outcome, kept, v) ==
    CASE outcome = "unreachable" -> [kind |-> "UnableToConnect", value |-> None]
      [] outcome = "error" -> [kind |-> "Error", value |-> None]
      [] OTHER -> Reported(LastTryValue(kept, Returned(outcome, v)))

\* # last try
LastTry(outcome, v, d) ==
    /\ pc = "last"
    /\ outcome \in Outcomes
    /\ v \in Values
    /\ d \in EvalTicks
    /\ now' = now + d
    /\ evaluations' = evaluations + 1
    /\ lastEval' = [at |-> now, took |-> d, inLoop |-> FALSE, read |-> v, outcome |-> outcome]
    /\ unreachable' = IF outcome = "unreachable" THEN unreachable + 1 ELSE unreachable
    /\ lambda_value' = IF outcome \in {"unreachable", "error"} THEN lambda_value
                       ELSE Returned(outcome, v)
    /\ pc' = "done"
    /\ result' = LastTryResult(outcome, lambda_value, v)
    /\ UNCHANGED <<call, timeout, current_time, tookInLoop, sleeps, lifeVars, callVars, restVars>>

(***************************************************************************)
(* assert_that_emulator_value_is_not and ChannelAccess.assert_that_pv_is_not: *)
(* the polling primitive run on a wrapper that compares the value read     *)
(* with the value the caller names.                                        *)
(***************************************************************************)
\* the value the observable must not have
restricted_value == "v1"

\* the wrapper of assert_that_emulator_value_causes_func_to_return_false
\* with func = lambda val: cast(val) == value, and _values_do_not_match:
\* None when the value read differs, a message when it is the value
values_do_not_match(v) == IF v = restricted_value THEN "unsatisfied" ELSE "satisfied"

\* one evaluation of the wrapper: the read fails, or the comparison is made
is_not_outcome(reachable, v) == IF reachable THEN values_do_not_match(v) ELSE "unreachable"

is_not_Poll(reachable, v, d) == Poll(is_not_outcome(reachable, v), v, d)

is_not_LastTry(reachable, v, d) == LastTry(is_not_outcome(reachable, v), v, d)

(***************************************************************************)
(* LewisLauncher.backdoor_set_on_device, backdoor_run_function_on_device   *)
(* and backdoor_get_from_device build an argument vector and hand it to    *)
(* backdoor_command, which spawns the lewis-control companion, polls it    *)
(* and returns the lines it wrote.  A Python value is a record: type is    *)
(* "str", "int", "float" or "bool"; s holds a string, n an integer (for a  *)
(* float: the value in tenths), b a boolean.  Text is a TLA+ string.       *)
(***************************************************************************)
MaxArgs == 2           \* arguments of one backdoor_run_function_on_device call
CompanionPolls == 39   \* for i in range(1, 40)

PyStr(x) == [type |-> "str", s |-> x, n |-> 0, b |-> FALSE]
PyInt(x) == [type |-> "int", s |-> "", n |-> x, b |-> FALSE]
PyFloat(tenths) == [type |-> "float", s |-> "", n |-> tenths, b |-> FALSE]
PyBool(x) == [type |-> "bool", s |-> "", n |-> 0, b |-> x]

\* the values tried: the strings 'a' and 'True', 12, 1.5, True and False
PyValues == {PyStr("a"), PyStr("True"), PyInt(12), PyFloat(15), PyBool(TRUE), PyBool(FALSE)}
Variables == {"x"}
Functions == {"f"}

Digit(d) == <<"0", "1", "2", "3", "4", "5", "6", "7", "8", "9">>[d + 1]

RECURSIVE NatStr(_)
NatStr(n) == IF n < 10 THEN Digit(n) ELSE NatStr(n \div 10) \o Digit(n % 10)

\* Python's str(value)
str(value) ==
    CASE value.type = "str" -> value.s
      [] value.type = "int" -> IF value.n < 0 THEN "-" \o NatStr(-value.n) ELSE NatStr(value.n)
      [] value.type = "float" -> NatStr(value.n \div 10) \o "." \o Digit(value.n % 10)
      [] OTHER -> IF value.b THEN "True" ELSE "False"

\* variant: every value is quoted
_convert_to_string_for_backdoor_quotes_all(value) == "'" \o str(value) \o "'"

\* "'{}'".format(value) if isinstance(value, str) else str(value)
_convert_to_string_for_backdoor(value) ==
    IF value.type = "str" THEN "'" \o str(value) \o "'" ELSE str(value)

\* ["device", str(variable), self._convert_to_string_for_backdoor(value)]
SetCommand(variable, value) ==
    <<"device", variable, _convert_to_string_for_backdoor(value)>>

\* command = ["device", function_name]; extended by the converted
\* arguments when arguments is not None
RunCommand(function_name, hasArguments, arguments) ==
    <<"device", function_name>>
      \o (IF hasArguments
          THEN [k \in 1..Len(arguments) |-> _convert_to_string_for_backdoor(arguments[k])]
          ELSE <<>>)

\* ["device", str(variable)]
GetCommand(variable) == <<"device", variable>>

NoRequest == [op |-> None, name |-> "", hasArguments |-> FALSE, arguments |-> <<>>]
NoReturn == [kind |-> "none", lines |-> <<>>]

\* a line of the companion's stdout: its text between leading and trailing
\* whitespace
Line(lead, text, trail) == [lead |-> lead, text |-> text, trail |-> trail]

\* what the companion can have written to its stdout when it is read
Outputs == {<<>>, <<Line("", "v1", "\r\n")>>, <<Line(" ", "v1", "\n")>>,
            <<Line("", "failed to create process", "\r\n")>>}

\* variant: the line is returned as read
strip_nothing(line) == line.lead \o line.text \o line.trail

\* line.strip()
strip(line) == line.text

CompanionIdle ==
    /\ request = NoRequest
    /\ command = <<>>
    /\ cpc = "idle"
    /\ polls = 0
    /\ companion = None
    /\ killed = FALSE
    /\ output = <<>>
    /\ ret = NoReturn

\* the start of backdoor_command: the command is logged, then the
\* companion is spawned; the loop starts with i = 1
backdoor_command(l, req, cmd, spawn) ==
    /\ l \in constructed \cap LewisLaunchers
    /\ cpc = "idle"
    /\ spawn \in {"ok", "spawn_fails"}
    /\ request' = req
    /\ command' = cmd
    /\ killed' = FALSE
    /\ output' = <<>>
    /\ IF backdoor_command_error(l) # None \/ spawn = "spawn_fails"
       THEN /\ cpc' = "returned"
            /\ polls' = 0
            /\ companion' = None
            /\ ret' = [kind |-> IF backdoor_command_error(l) # None
                                THEN backdoor_command_error(l) ELSE "OSError",
                       lines |-> <<>>]
       ELSE /\ cpc' = "polling"
            /\ polls' = 1
            /\ companion' = "running"
            /\ ret' = NoReturn
    /\ UNCHANGED <<lifeVars, callVars, waitVars, notCompanionVars>>

backdoor_set_on_device(l, variable, value, spawn) ==
    /\ variable \in Variables
    /\ value \in PyValues
    /\ backdoor_command(l, [op |-> "set", name |-> variable, hasArguments |-> TRUE,
                            arguments |-> <<value>>],
                        SetCommand(variable, value), spawn)

backdoor_run_function_on_device(l, function_name, hasArguments, arguments, spawn) ==
    /\ function_name \in Functions
    /\ hasArguments \in BOOLEAN
    /\ arguments \in UNION {[1..k -> PyValues] : k \in 0..MaxArgs}
    /\ ~hasArguments => arguments = <<>>
    /\ backdoor_command(l, [op |-> "run", name |-> function_name,
                            hasArguments |-> hasArguments, arguments |-> arguments],
                        RunCommand(function_name, hasArguments, arguments), spawn)

backdoor_get_from_device(l, variable, spawn) ==
    /\ variable \in Variables
    /\ backdoor_command(l, [op |-> "get", name |-> variable, hasArguments |-> FALSE,
                            arguments |-> <<>>],
                        GetCommand(variable), spawn)

\* the environment: the running companion exits with status 0 or 1
CompanionExits(code) ==
    /\ cpc = "polling"
    /\ companion = "running"
    /\ code \in {0, 1}
    /\ companion' = IF code = 0 THEN "exit0" ELSE "exit1"
    /\ UNCHANGED <<request, command, cpc, polls, killed, output, ret,
                   lifeVars, callVars, waitVars, notCompanionVars>>

\* after the loop: the output is read to its end; a line holding "failed
\* to create process" raises IOError, otherwise the lines are returned
ReturnKind(lines) ==
    IF \E k \in 1..Len(lines) : lines[k].text = "failed to create process"
    THEN "IOError" ELSE "returned"

\* return [line.strip() for line in output]; nothing is returned when the
\* call raises
Return(lines) ==
    [kind |-> ReturnKind(lines),
     lines |-> IF ReturnKind(lines) = "returned"
               THEN [k \in 1..Len(lines) |-> strip(lines[k])] ELSE <<>>]

\* one pass of the loop: code = p.poll(); if code == 0: break; sleep(0.1).
\* When the loop runs out (else:) p.terminate() is called.  lines is what
\* the companion wrote before it ended.
companion_poll(lines) ==
    /\ cpc = "polling"
    /\ lines \in Outputs
    /\ IF companion = "exit0"
       THEN /\ cpc' = "returned"
            /\ polls' = 0
            /\ output' = lines
            /\ ret' = Return(lines)
            /\ UNCHANGED <<companion, killed>>
       ELSE IF polls = CompanionPolls
       THEN /\ cpc' = "returned"
            /\ polls' = 0
            /\ companion' = Terminated(companion)
            /\ killed' = TRUE
            /\ output' = lines
            /\ ret' = Return(lines)
       ELSE /\ lines = <<>>
            /\ polls' = polls + 1
            /\ UNCHANGED <<cpc, companion, killed, output, ret>>
    /\ UNCHANGED <<request, command, lifeVars, callVars, waitVars, notCompanionVars>>

\* CommandLineEmulatorLauncher._open with emulator_wait_to_finish set, up to
\* self._process.wait(): the log file is opened and the process spawned
call_command_line(l, outcome) ==
    /\ l \in constructed \cap CommandLineLaunchers
    /\ wait(l)
    /\ phase[l] = "new"
    /\ outcome \in OpenOutcomes(l)
    /\ _logFile' = [_logFile EXCEPT ![l] = LogAfterOpen(l, outcome)]
    /\ _process' = [_process EXCEPT ![l] = IF outcome = "ok" THEN "running" ELSE @]
    /\ phase' = [phase EXCEPT ![l] = IF outcome = "ok" THEN "opening" ELSE "failed"]
    /\ raised' = [raised EXCEPT ![l] = IF outcome = "ok" THEN @ ELSE "OSError"]
    /\ UNCHANGED <<constructed, _connected, descendants, terminateCalls, closeCalls,
                   closeRaised, RunningEmulators, LewisRunning, bodyExc,
                   callVars, waitVars, restVars>>

\* self._process.wait() returns once the process has ended; __enter__
\* then registers the launcher
process_wait(l) ==
    /\ l \in constructed \cap CommandLineLaunchers
    /\ phase[l] = "opening"
    /\ _process[l] = "exited"
    /\ phase' = [phase EXCEPT ![l] = "open"]
    /\ RunningEmulators' = add_emulator(RunningEmulators, _emulator_id(l), l)
    /\ UNCHANGED <<constructed, _process, _logFile, _connected, descendants, terminateCalls,
                   closeCalls, closeRaised, LewisRunning, bodyExc, raised,
                   callVars, waitVars, restVars>>

(***************************************************************************)
(* utils/device_launcher.py.  A member of the collection is a              *)
(* device_launcher(ioc, lewis): "pair" when it has an emulator launcher,   *)
(* "ioc_only" when lewis is None.  __enter__ and __exit__ of the launchers *)
(* either return ("ok") or raise ("raises"); an __exit__ returns None, so  *)
(* it never suppresses the exception it is handed.                         *)
(***************************************************************************)
MaxDevices == 3        \* members of one collection

NoExc == [what |-> "none", member |-> 0, res |-> "none"]
Exc(what, i, res) == [what |-> what, member |-> i, res |-> res]
Event(kind, i, res, how) == [kind |-> kind, member |-> i, res |-> res, how |-> how]

DevIdle ==
    /\ devices = <<>>
    /\ dpc = "idle"
    /\ stack = <<>>
    /\ entered = <<>>
    /\ exited = <<>>
    /\ events = <<>>
    /\ exc_details = NoExc
    /\ firstFailure = NoExc
    /\ propagated = NoExc

DevInit ==
    /\ devices \in UNION {[1..n -> {"pair", "ioc_only"}] : n \in 1..MaxDevices}
    /\ dpc = "entering"
    /\ stack = <<>>
    /\ entered = <<>>
    /\ exited = <<>>
    /\ events = <<>>
    /\ exc_details = NoExc
    /\ firstFailure = NoExc
    /\ propagated = NoExc

\* variant: the IOC is the outer resource of the pair
PairOrder_ioc_outer == <<"ioc", "lewis">>

\* with lewis, ioc: the resources of a pair, outermost first
PairOrder == <<"lewis", "ioc">>

\* the resources of member i, outermost first
Resources(kind) == IF kind = "pair" THEN PairOrder ELSE <<"ioc">>

\* the __enter__ half of the with statement of device_launcher: the
\* resources are entered outermost first; when the n-th __enter__ raises,
\* the resources entered before it are exited innermost first and the
\* exception goes on (replaced by one an __exit__ raises).  fails = 0
\* means every __enter__ returns; outerExit is how the __exit__ of the
\* outer resource ends when the inner __enter__ raised.
device_launcher_enter(i, kind, fails, outerExit) ==
    LET rs == Resources(kind)
        enters == [n \in 1..(IF fails = 0 THEN Len(rs) ELSE fails) |->
                      Event("enter", i, rs[n], IF n = fails THEN "raises" ELSE "ok")]
        unwinds == IF fails = 2 THEN <<Event("exit", i, rs[1], outerExit)>> ELSE <<>>
    IN  [events |-> enters \o unwinds,
         first |-> IF fails = 0 THEN NoExc ELSE Exc("open", i, rs[fails]),
         exc |-> IF fails = 0 THEN NoExc
                 ELSE IF fails = 2 /\ outerExit = "raises" THEN Exc("close", i, rs[1])
                 ELSE Exc("open", i, rs[fails])]

\* the __exit__ half: the resources are exited innermost first, each
\* handed the exception in flight; an exception raised by an __exit__
\* takes the place of the one in flight.
device_launcher_exit(i, kind, inFlight, innerExit, outerExit) ==
    LET rs == Resources(kind)
        n == Len(rs)
        afterInner == IF innerExit = "raises" THEN Exc("close", i, rs[n]) ELSE inFlight
        afterOuter == IF n = 2 /\ outerExit = "raises" THEN Exc("close", i, rs[1])
                      ELSE afterInner
    IN  [events |-> IF n = 2
                    THEN <<Event("exit", i, rs[2], innerExit), Event("exit", i, rs[1], outerExit)>>
                    ELSE <<Event("exit", i, rs[1], innerExit)>>,
         first |-> IF inFlight # NoExc THEN inFlight
                   ELSE IF innerExit = "raises" THEN Exc("close", i, rs[n])
                   ELSE afterOuter,
         exc |-> afterOuter]

\* for device in devices: stack.enter_context(device)
enter_context(fails, outerExit) ==
    /\ dpc = "entering"
    /\ LET i == Len(entered) + 1
           r == device_launcher_enter(i, devices[i], fails, outerExit)
       IN  /\ fails \in 0..Len(Resources(devices[i]))
           /\ outerExit \in {"ok", "raises"}
           /\ (fails # 2) => outerExit = "ok"
           /\ events' = events \o r.events
           /\ IF r.exc = NoExc
              THEN /\ entered' = Append(entered, i)
                   /\ stack' = Append(stack, i)
                   /\ dpc' = IF i = Len(devices) THEN "body" ELSE "entering"
                   /\ UNCHANGED <<exc_details, firstFailure>>
              ELSE /\ dpc' = "unwinding"
                   /\ exc_details' = r.exc
                   /\ firstFailure' = r.first
                   /\ UNCHANGED <<entered, stack>>
    /\ UNCHANGED <<devices, exited, propagated, lifeVars, callVars, waitVars, notDevVars>>

\* yield: the body of the caller's with statement returns or raises
body(raises) ==
    /\ dpc = "body"
    /\ raises \in BOOLEAN
    /\ dpc' = "unwinding"
    /\ exc_details' = IF raises THEN Exc("body", 0, "body") ELSE NoExc
    /\ firstFailure' = IF raises THEN Exc("body", 0, "body") ELSE NoExc
    /\ UNCHANGED <<devices, stack, entered, exited, events, propagated,
                   lifeVars, callVars, waitVars, notDevVars>>

\* variant: the callbacks run in the order they were pushed
NextCallback_fifo(callbacks) == 1

\* ExitStack.__exit__: callbacks are popped from the end
NextCallback(callbacks) == Len(callbacks)

\* one pass of the loop of ExitStack.__exit__: the callback is handed the
\* exception in flight; what it raises becomes the exception in flight
exit_callback(innerExit, outerExit) ==
    /\ dpc = "unwinding"
    /\ stack # <<>>
    /\ innerExit \in {"ok", "raises"}
    /\ outerExit \in {"ok", "raises"}
    /\ LET n == NextCallback(stack)
           i == stack[n]
           r == device_launcher_exit(i, devices[i], exc_details, innerExit, outerExit)
       IN  /\ (devices[i] = "ioc_only") => outerExit = "ok"
           /\ stack' = SubSeq(stack, 1, n - 1) \o SubSeq(stack, n + 1, Len(stack))
           /\ exited' = Append(exited, i)
           /\ events' = events \o r.events
           /\ exc_details' = r.exc
           /\ firstFailure' = IF firstFailure = NoExc THEN r.first ELSE firstFailure
    /\ UNCHANGED <<devices, dpc, entered, propagated, lifeVars, callVars, waitVars,
                   notDevVars>>

\* the end of ExitStack.__exit__: the exception in flight, if any, leaves
\* the with statement and device_collection_launcher
stack_exit ==
    /\ dpc = "unwinding"
    /\ stack = <<>>
    /\ dpc' = "done"
    /\ propagated' = exc_details
    /\ UNCHANGED <<devices, stack, entered, exited, events, exc_details, firstFailure,
                   lifeVars, callVars, waitVars, notDevVars>>

(***************************************************************************)
(* CommandLineEmulatorLauncher._close, statement by statement, while the   *)
(* processes it handles end by themselves.  children is the list          *)
(* proc.children(recursive=True) returned: one entry per descendant,       *)
(* "running", "exited" (ended by itself) or "terminated".  target is the   *)
(* process being handled: a position in children, or Len(children) + 1     *)
(* for the launched process itself.                                        *)
(***************************************************************************)
CloseIdle ==
    /\ children = <<>>
    /\ kpc = "idle"
    /\ target = 0
    /\ closeTrace = <<>>

\* variant: no except clause
Handles_nothing(exc) == FALSE

\* except psutil.NoSuchProcess: pass
Handles(exc) == exc = "NoSuchProcess"

\* the state of the process being handled
StatusOf(l, i) == IF i <= Len(children) THEN children[i] ELSE _process[l]

\* what follows the try block of process i: the next child, the launched
\* process, then the log file
AfterProcess(i) == IF i <= Len(children) THEN "is_running" ELSE "log"

\* proc = self._process; assert proc is not None;
\* children = proc.children(recursive=True)
\* (taken while the launched process runs: the enumeration of a process
\* that is gone is psutil's business)
enumerate_children(l) ==
    /\ l \in constructed \cap CommandLineLaunchers
    /\ phase[l] = "open"
    /\ kpc = "idle"
    /\ _process[l] = "running"
    /\ phase' = [phase EXCEPT ![l] = "closing"]
    /\ children' = [i \in 1..descendants[l] |-> "running"]
    /\ kpc' = "is_running"
    /\ target' = 1
    /\ closeTrace' = <<>>
    /\ UNCHANGED <<constructed, _process, _logFile, _connected, descendants, terminateCalls,
                   closeCalls, closeRaised, RunningEmulators, LewisRunning, bodyExc, raised,
                   callVars, waitVars, notCloseVars>>

\* if child.is_running():   /   if self._process.is_running():
is_running(l) ==
    /\ l \in CommandLineLaunchers
    /\ phase[l] = "closing"
    /\ kpc = "is_running"
    /\ kpc' = IF StatusOf(l, target) = "running" THEN "terminate" ELSE "wait"
    /\ closeTrace' = Append(closeTrace, [call |-> "is_running", on |-> target,
                                         saw |-> StatusOf(l, target)])
    /\ UNCHANGED <<lifeVars, children, target, callVars, waitVars, notCloseVars>>

\* child.terminate()   /   self._process.terminate()
\* raises psutil.NoSuchProcess when the process ended after is_running()
terminate(l) ==
    /\ l \in CommandLineLaunchers
    /\ phase[l] = "closing"
    /\ kpc = "terminate"
    /\ IF StatusOf(l, target) = "running"
       THEN /\ closeTrace' = Append(closeTrace, [call |-> "terminate", on |-> target,
                                                 saw |-> "running"])
            /\ kpc' = "wait"
            /\ IF target <= Len(children)
               THEN /\ children' = [children EXCEPT ![target] = "terminated"]
                    /\ descendants' = [descendants EXCEPT ![l] = @ - 1]
                    /\ UNCHANGED <<_process, terminateCalls>>
               ELSE /\ _process' = [_process EXCEPT ![l] = Terminated(@)]
                    /\ terminateCalls' = [terminateCalls EXCEPT ![l] = @ + 1]
                    /\ UNCHANGED <<children, descendants>>
            /\ UNCHANGED <<target, phase, closeCalls, closeRaised, raised>>
       ELSE /\ closeTrace' = Append(closeTrace, [call |-> "terminate", on |-> target,
                                                 saw |-> "NoSuchProcess"])
            /\ IF Handles("NoSuchProcess")
               THEN /\ kpc' = AfterProcess(target)
                    /\ target' = target + 1
                    /\ UNCHANGED <<phase, closeCalls, closeRaised, raised>>
               ELSE /\ kpc' = "raised"
                    /\ phase' = [phase EXCEPT ![l] = "closed"]
                    /\ closeCalls' = [closeCalls EXCEPT ![l] = @ + 1]
                    /\ closeRaised' = [closeRaised EXCEPT ![l] = "NoSuchProcess"]
                    /\ raised' = [raised EXCEPT ![l] = "NoSuchProcess"]
                    /\ UNCHANGED target
            /\ UNCHANGED <<children, descendants, _process, terminateCalls>>
    /\ UNCHANGED <<constructed, _logFile, _connected, RunningEmulators, LewisRunning, bodyExc,
                   callVars, waitVars, notCloseVars>>

\* child.wait()   /   self._process.wait(): returns once the process is gone
process_gone(l) ==
    /\ l \in CommandLineLaunchers
    /\ phase[l] = "closing"
    /\ kpc = "wait"
    /\ StatusOf(l, target) # "running"
    /\ closeTrace' = Append(closeTrace, [call |-> "wait", on |-> target,
                                         saw |-> StatusOf(l, target)])
    /\ kpc' = AfterProcess(target)
    /\ target' = target + 1
    /\ UNCHANGED <<lifeVars, children, callVars, waitVars, notCloseVars>>

\* if self._log_file is not None: self._log_file.close(); back in __exit__:
\* EmulatorRegister.remove_emulator(self._emulator_id)
log_file_close(l, exc) ==
    /\ l \in CommandLineLaunchers
    /\ phase[l] = "closing"
    /\ kpc = "log"
    /\ exc \in {None, "BodyError"}
    /\ closeTrace' = Append(closeTrace, [call |-> "close", on |-> 0, saw |-> _logFile[l]])
    /\ _logFile' = [_logFile EXCEPT ![l] = IF @ # None THEN "closed" ELSE @]
    /\ closeCalls' = [closeCalls EXCEPT ![l] = @ + 1]
    /\ closeRaised' = [closeRaised EXCEPT ![l] = None]
    /\ kpc' = "done"
    /\ phase' = [phase EXCEPT ![l] = "closed"]
    /\ bodyExc' = [bodyExc EXCEPT ![l] = exc]
    /\ raised' = [raised EXCEPT ![l] = ExitRaises(l, exc)]
    /\ RunningEmulators' =
          IF remove_raises(RunningEmulators, _emulator_id(l)) THEN RunningEmulators
          ELSE remove_emulator(RunningEmulators, _emulator_id(l))
    /\ UNCHANGED <<constructed, _process, _connected, descendants, terminateCalls,
                   LewisRunning, children, target, callVars, waitVars, notCloseVars>>

\* the environment: an enumerated descendant ends by itself during _close
child_exits(l, i) ==
    /\ l \in CommandLineLaunchers
    /\ phase[l] = "closing"
    /\ i \in 1..Len(children)
    /\ children[i] = "running"
    /\ children' = [children EXCEPT ![i] = "exited"]
    /\ descendants' = [descendants EXCEPT ![l] = @ - 1]
    /\ UNCHANGED <<constructed, phase, _process, _logFile, _connected, terminateCalls,
                   closeCalls, closeRaised, RunningEmulators, LewisRunning, bodyExc, raised,
                   kpc, target, closeTrace, callVars, waitVars, notCloseVars>>

(***************************************************************************)
(* ChannelAccess.assert_pv_value_over_time: two reads of a PV and a        *)
(* comparator applied to them inside try / except Exception.  A Python     *)
(* exception is a record: its type and whether it has a message attribute  *)
(* (an exception class may define one; the built-in ones have it under     *)
(* Python 2 only).                                                         *)
(***************************************************************************)
MaxPvValue == 3        \* largest PV value read

PvValues == 0..MaxPvValue

\* operator.gt, operator.lt, operator.eq (assert_pv_value_is_increasing,
\* _decreasing, _unchanged) and comparators that raise
Comparators == {"gt", "lt", "eq", "raises", "raises_with_message"}

Interpreters == {2, 3}

OverTimeIdle ==
    overTime = [pv |-> <<>>, comparator |-> None, interpreter |-> 0, outcome |-> None]

\* comparator(initial_value, final_value)
Compare(comparator, initial_value, final_value) ==
    CASE comparator = "gt" -> initial_value > final_value
      [] comparator = "lt" -> initial_value < final_value
      [] OTHER -> initial_value = final_value

\* the exception raised inside the try block, if any
RaisedInTry(comparator, initial_value, final_value, interpreter) ==
    CASE comparator = "raises" -> [type |-> "ComparatorError", hasMessage |-> FALSE]
      [] comparator = "raises_with_message" -> [type |-> "ComparatorError", hasMessage |-> TRUE]
      [] ~Compare(comparator, initial_value, final_value) ->
            [type |-> "AssertionError", hasMessage |-> interpreter = 2]
      [] OTHER -> [type |-> None, hasMessage |-> FALSE]

\* except Exception as e:
\*     AssertionError("Comparison function failed to execute: {0}".format(e.message))
\* e.message is read first; the AssertionError is built and dropped
ExceptException(e) == IF e.hasMessage THEN "returned" ELSE "AttributeError"

\* how the call ends
over_time_outcome(comparator, initial_value, final_value, interpreter) ==
    LET e == RaisedInTry(comparator, initial_value, final_value, interpreter)
    IN  IF e.type = None THEN "returned" ELSE ExceptException(e)

assert_pv_value_over_time(comparator, initial_value, final_value, interpreter) ==
    /\ comparator \in Comparators
    /\ initial_value \in PvValues
    /\ final_value \in PvValues
    /\ interpreter \in Interpreters
    /\ overTime' = [pv |-> <<initial_value, final_value>>, comparator |-> comparator,
                    interpreter |-> interpreter,
                    outcome |-> over_time_outcome(comparator, initial_value, final_value,
                                                  interpreter)]
    /\ UNCHANGED <<lifeVars, callVars, waitVars, notOverTimeVars>>

(***************************************************************************)
(* EmulatorLauncher.backdoor_simulate_disconnected_device: a context       *)
(* manager around two backdoor_set_on_device calls on emulator_property.   *)
(* propertySets records every set issued for that property and how it      *)
(* ended.                                                                  *)
(***************************************************************************)
MaxBlocks == 2         \* with-blocks of backdoor_simulate_disconnected_device in one run

SimIdle ==
    /\ simpc = "idle"
    /\ propertySets = <<>>
    /\ blocks = 0
    /\ simRaised = None

\* variant: the restoring set is made only when the body returned
Restores_on_return(exc) == exc = None

\* try: yield / finally: the restoring set is made however the body ended
Restores(exc) == TRUE

\* self.backdoor_set_on_device(emulator_property, value) on launcher l
property_set(l, value, spawn) ==
    LET outcome == BackdoorOutcome(l, "set", spawn)
    IN  /\ propertySets' = Append(propertySets, [value |-> value, outcome |-> outcome])
        /\ lastCall' = [launcher |-> l, op |-> "set", outcome |-> outcome]
        /\ deviceState' = IF l \in AllLewis /\ outcome = "returned"
                          THEN [deviceState EXCEPT ![l] = value] ELSE deviceState

\* entering the block: self.backdoor_set_on_device(emulator_property, False);
\* when it raises, the generator ends before its try statement
simulate_disconnected_enter(l, spawn) ==
    /\ l \in constructed \cap EmulatorLaunchers
    /\ simpc \in {"idle", "exited", "entry_failed"}
    /\ blocks < MaxBlocks
    /\ spawn \in {"ok", "spawn_fails"}
    /\ blocks' = blocks + 1
    /\ property_set(l, "False", spawn)
    /\ IF BackdoorOutcome(l, "set", spawn) = "returned"
       THEN /\ simpc' = "inside"
            /\ simRaised' = None
       ELSE /\ simpc' = "entry_failed"
            /\ simRaised' = BackdoorOutcome(l, "set", spawn)
    /\ UNCHANGED <<lifeVars, sent, waitVars, notSimVars>>

\* leaving the block after the body returned (exc is None) or raised:
\* finally: self.backdoor_set_on_device(emulator_property, True)
simulate_disconnected_exit(l, exc, spawn) ==
    /\ l \in constructed \cap EmulatorLaunchers
    /\ simpc = "inside"
    /\ exc \in {None, "BodyError"}
    /\ spawn \in {"ok", "spawn_fails"}
    /\ simpc' = "exited"
    /\ IF Restores(exc)
       THEN /\ property_set(l, "True", spawn)
            /\ simRaised' = IF BackdoorOutcome(l, "set", spawn) = "returned" THEN exc
                            ELSE BackdoorOutcome(l, "set", spawn)
       ELSE /\ simRaised' = exc
            /\ UNCHANGED <<propertySets, lastCall, deviceState>>
    /\ UNCHANGED <<lifeVars, sent, blocks, waitVars, notSimVars>>

(***************************************************************************)
(* Specifications                                                          *)
(***************************************************************************)
Init == LifeInit /\ CallInit /\ WaitIdle /\ DevIdle /\ CompanionIdle /\ CloseIdle /\ OverTimeIdle /\ SimIdle

Next ==
    \/ \E l \in EmulatorLaunchers, outcome \in {"ok", "log_fails", "spawn_fails"},
          d \in 0..MaxDescendants : EmulatorLauncher_enter(l, outcome, d)
    \/ \E l \in EmulatorLaunchers, exc \in {None, "BodyError"} : EmulatorLauncher_exit(l, exc)
    \/ \E l \in EmulatorLaunchers : EmulatorLauncher_close(l)
    \/ \E m \in MultiLaunchers, n \in 0..2, outcome \in {"ok", "log_fails", "spawn_fails"} :
          MultiLewisLauncher_enter(m, n, outcome)
    \/ \E m \in MultiLaunchers, exc \in {None, "BodyError"} : MultiLewisLauncher_exit(m, exc)
    \/ \E l \in LegacyLaunchers, outcome \in {"ok", "log_fails", "spawn_fails"} :
          lewis_launcher_enter(l, outcome)
    \/ \E l \in LegacyLaunchers, exc \in {None, "BodyError"} : lewis_launcher_exit(l, exc)
    \/ \E o \in Objects : ProcessExits(o)
    \/ \E o \in Objects : DescendantExits(o)

Spec == Init /\ [][Next]_vars

\* one launcher, driven through its life and its backdoor
BackdoorInit == Init /\ Cardinality(constructed) = 1

BackdoorNext ==
    \/ Next
    \/ \E l \in TopLaunchers, op \in AllOps, spawn \in {"ok", "spawn_fails"} : Backdoor(l, op, spawn)
    \/ \E m \in MultiLaunchers :
          \E a \in Addresses(m), op \in Ops, spawn \in {"ok", "spawn_fails"} :
             MultiBackdoor(m, a, op, spawn)

SpecBackdoor == BackdoorInit /\ [][BackdoorNext]_vars

WaitNext ==
    \/ \E primitive \in {"emulator", "pv"}, isLewis \in BOOLEAN, given \in BOOLEAN, t \in Timeouts :
          WaitStart(primitive, isLewis, given, t)
    \/ \E outcome \in Outcomes, v \in Values, d \in EvalTicks : Poll(outcome, v, d)
    \/ Sleep
    \/ \E outcome \in Outcomes, v \in Values, d \in EvalTicks : LastTry(outcome, v, d)

WaitInit ==
    /\ LifeInit
    /\ constructed = {"lewis1"}
    /\ CallInit
    /\ WaitIdle
    /\ DevIdle
    /\ CompanionIdle
    /\ CloseIdle
    /\ OverTimeIdle
    /\ SimIdle

SpecWait == WaitInit /\ [][WaitNext]_vars

DevicesInit ==
    /\ LifeInit
    /\ constructed = {"lewis1"}
    /\ CallInit
    /\ WaitIdle
    /\ DevInit
    /\ CompanionIdle
    /\ CloseIdle
    /\ OverTimeIdle
    /\ SimIdle

DevicesNext ==
    \/ \E fails \in 0..2, outerExit \in {"ok", "raises"} : enter_context(fails, outerExit)
    \/ \E raises \in BOOLEAN : body(raises)
    \/ \E innerExit \in {"ok", "raises"}, outerExit \in {"ok", "raises"} :
          exit_callback(innerExit, outerExit)
    \/ stack_exit

SpecDevices == DevicesInit /\ [][DevicesNext]_vars

\* one launcher and the calls that wait on a process: its open, one
\* backdoor call, its close.  The calls of a test run in one thread:
\* nothing else is called while a call is in progress.
CallsInit == Init /\ constructed \in {{"lewis1"}, {"beckhoff"}}

CallInProgress == cpc = "polling" \/ \E l \in CommandLineLaunchers : phase[l] = "opening"

CallSteps ==
    \/ \E lines \in Outputs : companion_poll(lines)
    \/ \E l \in CommandLineLaunchers : process_wait(l)

CallsNext ==
    \/ /\ ~CallInProgress
       /\ \/ \E l \in LewisLaunchers, outcome \in {"ok", "log_fails", "spawn_fails"} :
                EmulatorLauncher_enter(l, outcome, 0)
          \/ \E l \in CommandLineLaunchers, outcome \in {"ok", "log_fails", "spawn_fails"} :
                call_command_line(l, outcome)
          \/ \E l \in EmulatorLaunchers, exc \in {None, "BodyError"} : EmulatorLauncher_exit(l, exc)
    \/ /\ cpc = "idle"
       /\ \/ \E l \in LewisLaunchers, variable \in Variables, value \in PyValues,
                spawn \in {"ok", "spawn_fails"} : backdoor_set_on_device(l, variable, value, spawn)
          \/ \E l \in LewisLaunchers, function_name \in Functions, hasArguments \in BOOLEAN,
                arguments \in UNION {[1..k -> PyValues] : k \in 0..MaxArgs},
                spawn \in {"ok", "spawn_fails"} :
                backdoor_run_function_on_device(l, function_name, hasArguments, arguments, spawn)
          \/ \E l \in LewisLaunchers, variable \in Variables, spawn \in {"ok", "spawn_fails"} :
                backdoor_get_from_device(l, variable, spawn)
    \/ CallSteps
    \/ \E code \in {0, 1} : CompanionExits(code)
    \/ \E l \in CommandLineLaunchers : ProcessExits(l)

SpecCalls == CallsInit /\ [][CallsNext]_vars

\* the test thread runs: a call that can take its next step takes it.
\* Nothing makes an external process exit.
SpecCallsFair == SpecCalls /\ WF_vars(CallSteps)


\* one command-line emulator: its open, then __exit__ with _close taken
\* statement by statement while its processes may end by themselves
CloseInit == Init /\ constructed = {"cmd"}

CloseNext ==
    \/ \E l \in CommandLineLaunchers, outcome \in {"ok", "log_fails", "spawn_fails"},
          d \in 0..MaxDescendants : EmulatorLauncher_enter(l, outcome, d)
    \/ \E l \in CommandLineLaunchers : phase[l] = "open" /\ DescendantExits(l)
    \/ \E l \in CommandLineLaunchers : enumerate_children(l)
    \/ \E l \in CommandLineLaunchers : is_running(l)
    \/ \E l \in CommandLineLaunchers : terminate(l)
    \/ \E l \in CommandLineLaunchers : process_gone(l)
    \/ \E l \in CommandLineLaunchers, exc \in {None, "BodyError"} : log_file_close(l, exc)
    \/ \E l \in CommandLineLaunchers, i \in 1..MaxDescendants + 1 : child_exits(l, i)
    \/ \E l \in CommandLineLaunchers : phase[l] = "closing" /\ ProcessExits(l)

SpecClose == CloseInit /\ [][CloseNext]_vars

\* one assert_that_emulator_value_is_not / assert_that_pv_is_not call
IsNotNext ==
    \/ \E primitive \in {"emulator", "pv"}, isLewis \in BOOLEAN, given \in BOOLEAN, t \in Timeouts :
          WaitStart(primitive, isLewis, given, t)
    \/ \E reachable \in BOOLEAN, v \in Values, d \in EvalTicks : is_not_Poll(reachable, v, d)
    \/ Sleep
    \/ \E reachable \in BOOLEAN, v \in Values, d \in EvalTicks : is_not_LastTry(reachable, v, d)

SpecIsNot == WaitInit /\ [][IsNotNext]_vars

\* calls of assert_pv_value_over_time
OverTimeNext ==
    \E comparator \in Comparators, initial_value \in PvValues, final_value \in PvValues,
       interpreter \in Interpreters :
          assert_pv_value_over_time(comparator, initial_value, final_value, interpreter)

SpecOverTime == WaitInit /\ [][OverTimeNext]_vars

\* one launcher, its life, its connect / disconnect toggles and the
\* blocks of backdoor_simulate_disconnected_device
SimulateInit == Init /\ constructed \in {{"lewis1"}, {"cmd"}, {"null"}}

SimulateNext ==
    \/ \E l \in EmulatorLaunchers, outcome \in {"ok", "log_fails", "spawn_fails"} :
          EmulatorLauncher_enter(l, outcome, 0)
    \/ \E l \in EmulatorLaunchers, exc \in {None, "BodyError"} : EmulatorLauncher_exit(l, exc)
    \/ \E l \in EmulatorLaunchers, op \in {"connect", "disconnect"},
          spawn \in {"ok", "spawn_fails"} : Backdoor(l, op, spawn)
    \/ \E l \in EmulatorLaunchers, spawn \in {"ok", "spawn_fails"} :
          simulate_disconnected_enter(l, spawn)
    \/ \E l \in EmulatorLaunchers, exc \in {None, "BodyError"}, spawn \in {"ok", "spawn_fails"} :
          simulate_disconnected_exit(l, exc, spawn)

SpecSimulate == SimulateInit /\ [][SimulateNext]_vars

(***************************************************************************)
(* Properties of the launcher life cycle and the registry                  *)
(***************************************************************************)

\* C1: every EmulatorLauncher whose with-block has been left ran _close
\* exactly once; its process is no longer running (a Lewis process got
\* terminate), its log file, if one was created, is closed, and a body
\* exception is the exception that leaves the block.
C1_CloseOnExit ==
    \A l \in EmulatorLaunchers :
        phase[l] = "closed" =>
            /\ closeCalls[l] = 1
            /\ _process[l] # "running"
            /\ (l \in LewisLaunchers => terminateCalls[l] = 1)
            /\ _logFile[l] # "open"
            /\ (bodyExc[l] # None => raised[l] = bodyExc[l])

\* C2: registry round trip.  __enter__ on a registry without the launcher's
\* key stores the launcher under that key and touches no other entry;
\* __exit__ leaves the key absent and touches no other entry.
C2_RegistryRoundTrip ==
    [][\A l \in EmulatorLaunchers \cup MultiLaunchers :
          /\ (phase[l] = "new" /\ phase'[l] = "open"
                /\ get_running(RunningEmulators, _emulator_id(l)) = None)
             => /\ get_running(RunningEmulators', _emulator_id(l)) = l
                /\ \A k \in Keys \ {_emulator_id(l)} : RunningEmulators'[k] = RunningEmulators[k]
          /\ (phase[l] = "open" /\ phase'[l] = "closed")
             => /\ get_running(RunningEmulators', _emulator_id(l)) = None
                /\ \A k \in Keys \ {_emulator_id(l)} : RunningEmulators'[k] = RunningEmulators[k]
      ]_vars

\* C2 witness: the multi launcher went through __enter__ and __exit__ while
\* the null launcher stayed open; its key is absent again, the other entry kept.
C2_Witness ==
    /\ phase["multi"] = "closed"
    /\ phase["null"] = "open"
    /\ get_running(RunningEmulators, "T") = None
    /\ get_running(RunningEmulators, "C") = "null"

\* C3: a key is in a registry (EmulatorRegister or the legacy LewisRegister)
\* only while the launcher stored under it is open.
C3_EntriesOnlyWhileOpen ==
    \A k \in Keys :
        /\ RunningEmulators[k] # None => phase[RunningEmulators[k]] = "open"
        /\ LewisRunning[k] # None => phase[LewisRunning[k]] = "open"

\* C4: an entry of EmulatorRegister that holds an open launcher is not
\* replaced or removed by any step other than that launcher's own close.
C4_NoSilentOverwrite ==
    [][\A k \in Keys :
          (RunningEmulators[k] # None /\ phase[RunningEmulators[k]] = "open")
          => \/ RunningEmulators'[k] = RunningEmulators[k]
             \/ phase'[RunningEmulators[k]] = "closed"
      ]_vars

\* C11: a _close call on a Lewis or command-line launcher never raises,
\* whether the process is running, has exited or was never created, and
\* leaves no log file open.
C11_CloseNeverRaises ==
    \A l \in LewisLaunchers \cup CommandLineLaunchers :
        closeCalls[l] > 0 => (closeRaised[l] = None /\ _logFile[l] # "open")


\* C26: after MultiLewisLauncher's open raised, no child process is left
\* running, no child log file is left open and nothing is registered under
\* the test name.
C26_FailedOpenClosesChildren ==
    \A m \in constructed \cap MultiLaunchers :
        phase[m] = "failed" =>
            /\ \A i \in 1..Len(emulator_launchers(m)) :
                  /\ _process[emulator_launchers(m)[i]] # "running"
                  /\ _logFile[emulator_launchers(m)[i]] # "open"
            /\ RunningEmulators[_emulator_id(m)] = None

\* the launcher that shares l's key
Sharer(l) == CHOOSE o \in LewisLaunchers : o # l /\ _emulator_id(o) = _emulator_id(l)

\* C29: deregistration is by key.  With both launchers of a key open, the
\* exit of either removes the entry, whichever of the two it holds, and
\* raises nothing of its own; the exit of the other one then terminates
\* its process, raises KeyError and leaves the registry as it was.
C29_DeregistrationByKey ==
    [][\A l \in constructed \cap LewisLaunchers :
          /\ (phase[l] = "open" /\ phase[Sharer(l)] = "open" /\ phase'[l] = "closed")
             => /\ RunningEmulators[_emulator_id(l)] \in {l, Sharer(l)}
                /\ RunningEmulators'[_emulator_id(l)] = None
                /\ raised'[l] = bodyExc'[l]
          /\ (phase[l] = "open" /\ phase[Sharer(l)] = "closed"
                /\ RunningEmulators[_emulator_id(l)] = None /\ phase'[l] = "closed")
             => /\ terminateCalls'[l] = terminateCalls[l] + 1
                /\ _process'[l] # "running"
                /\ raised'[l] = "KeyError"
                /\ RunningEmulators' = RunningEmulators
      ]_vars

\* C29 witness: lewis1 and lewis2 were open together; lewis2, which held
\* the entry, exited second and got KeyError after its process was
\* terminated.
C29_Witness ==
    /\ phase["lewis1"] = "closed" /\ phase["lewis2"] = "closed"
    /\ raised["lewis1"] = None
    /\ raised["lewis2"] = "KeyError"
    /\ terminateCalls["lewis2"] = 1
    /\ _process["lewis2"] = "terminated"
    /\ RunningEmulators["A"] = None

(***************************************************************************)
(* Properties of the command-line emulator's close                         *)
(***************************************************************************)
\* the calls _close made on process i, in order, each with what it met
CallsOn(i) ==
    LET made == SelectSeq(closeTrace, LAMBDA e : e.on = i)
    IN  [k \in 1..Len(made) |-> <<made[k].call, made[k].saw>>]

\* position of a call in the order of _close: children as enumerated, the
\* launched process, the log file
Rank(e) == IF e.call = "close" THEN Len(children) + 2 ELSE e.on

\* C22: _close never raises, whatever ends by itself after the enumeration;
\* it never waits on a process that still runs; and when it is over every
\* enumerated descendant and the launched process are gone, each one found
\* running was sent terminate and each one terminated was waited for (one
\* that vanished before terminate is passed over), the descendants were
\* handled before the launched process and the log file was closed last.
C22_CloseToleratesExits ==
    \A l \in constructed \cap CommandLineLaunchers :
        /\ kpc # "raised"
        /\ closeRaised[l] = None
        /\ kpc = "wait" => StatusOf(l, target) # "running"
        /\ \A a, b \in DOMAIN closeTrace : a < b => Rank(closeTrace[a]) <= Rank(closeTrace[b])
        /\ kpc = "done" =>
              /\ \A i \in DOMAIN children : children[i] # "running"
              /\ _process[l] # "running"
              /\ _logFile[l] = "closed"
              /\ closeTrace[Len(closeTrace)].call = "close"
              /\ \A i \in 1..Len(children) + 1 :
                    \/ CallsOn(i) = << <<"is_running", "running">>, <<"terminate", "running">>,
                                       <<"wait", "terminated">> >>
                    \/ CallsOn(i) = << <<"is_running", "running">>,
                                       <<"terminate", "NoSuchProcess">> >>
                    \/ CallsOn(i) = << <<"is_running", "exited">>, <<"wait", "exited">> >>

\* C22 witness: a close that ended after a descendant and the launched
\* process each ended between its is_running() and its terminate().
C22_Witness ==
    /\ kpc = "done"
    /\ Len(children) >= 1
    /\ CallsOn(1) = << <<"is_running", "running">>, <<"terminate", "NoSuchProcess">> >>
    /\ CallsOn(Len(children) + 1) = << <<"is_running", "running">>,
                                       <<"terminate", "NoSuchProcess">> >>
    /\ _logFile["cmd"] = "closed"

(***************************************************************************)
(* Properties of device_launcher and device_collection_launcher            *)
(***************************************************************************)
Reverse(seq) == [n \in 1..Len(seq) |-> seq[Len(seq) + 1 - n]]

IsEvent(e, kind, i, res) == e.kind = kind /\ e.member = i /\ e.res = res

\* C12: in a pair the emulator is the outer resource.  The IOC is entered
\* only right after the emulator's __enter__ returned; the IOC's __exit__
\* is followed at once by the emulator's; the emulator is exited only
\* after the IOC's __exit__ or after the IOC's __enter__ raised, and in
\* the latter case the IOC's __exit__ is never called and the exception
\* is in flight only once the emulator's __exit__ was called.
C12_EmulatorIsOuter ==
    \A p \in 1..Len(events) :
        LET e == events[p]
            i == e.member
        IN  devices[i] = "pair" =>
              /\ IsEvent(e, "enter", i, "ioc")
                    => p > 1 /\ events[p - 1] = Event("enter", i, "lewis", "ok")
              /\ IsEvent(e, "exit", i, "ioc")
                    => p < Len(events) /\ IsEvent(events[p + 1], "exit", i, "lewis")
              /\ IsEvent(e, "exit", i, "lewis")
                    => /\ p > 1
                       /\ \/ IsEvent(events[p - 1], "exit", i, "ioc")
                          \/ events[p - 1] = Event("enter", i, "ioc", "raises")
              /\ e = Event("enter", i, "ioc", "raises")
                    => /\ p < Len(events) /\ IsEvent(events[p + 1], "exit", i, "lewis")
                       /\ \A q \in 1..Len(events) : ~IsEvent(events[q], "exit", i, "ioc")
                       /\ firstFailure = Exc("open", i, "ioc")

\* C12 witness: the second of two pairs had its emulator opened and its
\* IOC's __enter__ raise; its emulator was exited, then the first pair's
\* IOC and emulator, and the IOC's exception left the collection.
C12_Witness ==
    /\ dpc = "done"
    /\ devices = <<"pair", "pair">>
    /\ events = <<Event("enter", 1, "lewis", "ok"), Event("enter", 1, "ioc", "ok"),
                  Event("enter", 2, "lewis", "ok"), Event("enter", 2, "ioc", "raises"),
                  Event("exit", 2, "lewis", "ok"),
                  Event("exit", 1, "ioc", "ok"), Event("exit", 1, "lewis", "ok")>>
    /\ propagated = Exc("open", 2, "ioc")

CloseRaised == \E p \in 1..Len(events) : events[p].kind = "exit" /\ events[p].how = "raises"

\* C13: members are entered in list order and exited in the reverse
\* order.  When the k-th member's open or the body raised, the collection
\* ends with exactly the members entered before the failure exited, each
\* once, in reverse order; no launcher of a later member was ever touched;
\* an exception leaves the collection, the raised one when no close raised.
C13_ReverseOrderUnwind ==
    /\ entered = [n \in 1..Len(entered) |-> n]
    /\ Len(exited) <= Len(entered)
    /\ exited = SubSeq(Reverse(entered), 1, Len(exited))
    /\ (dpc = "done" /\ firstFailure.what \in {"open", "body"}) =>
          /\ exited = Reverse(entered)
          /\ Len(entered) = IF firstFailure.what = "open" THEN firstFailure.member - 1
                            ELSE Len(devices)
          /\ \A p \in 1..Len(events) : events[p].member <= Len(entered) + 1
          /\ propagated # NoExc
          /\ ~CloseRaised => propagated = firstFailure

\* C13 witness: the third member's open raised after two members were
\* entered; they were exited second first, and the exception propagated.
C13_Witness ==
    /\ dpc = "done"
    /\ Len(devices) = 3
    /\ firstFailure.what = "open" /\ firstFailure.member = 3
    /\ entered = <<1, 2>>
    /\ exited = <<2, 1>>
    /\ propagated = firstFailure

\* C14: whatever raises during the unwinding, every entered member is
\* exited and the exception that leaves the collection is the first one
\* raised in the run.
C14_FirstFailureWins ==
    dpc = "done" =>
        /\ stack = <<>>
        /\ exited = Reverse(entered)
        /\ propagated = firstFailure


(***************************************************************************)
(* Properties of the backdoor argument vector and of the blocking calls    *)
(***************************************************************************)
\* the textual argument the claim prescribes for a value
Transmitted(value) ==
    IF value.type = "str" THEN "'" \o value.s \o "'" ELSE str(value)

\* C15: backdoor_set_on_device hands backdoor_command exactly
\* [device, variable, v] and backdoor_run_function_on_device exactly
\* [device, function_name, v1, ...]: a string value is wrapped in single
\* quotes, a number or a boolean is its bare text; True and False are
\* never quoted, the string 'True' is.
C15_BackdoorArguments ==
    /\ Transmitted(PyBool(TRUE)) = "True" /\ Transmitted(PyBool(FALSE)) = "False"
    /\ Transmitted(PyStr("True")) = "'True'" /\ Transmitted(PyStr("a")) = "'a'"
    /\ Transmitted(PyInt(12)) = "12" /\ Transmitted(PyFloat(15)) = "1.5"
    /\ request.op = "set"
          => command = <<"device", request.name, Transmitted(request.arguments[1])>>
    /\ request.op = "run"
          => /\ Len(command) = 2 + Len(request.arguments)
             /\ command[1] = "device" /\ command[2] = request.name
             /\ \A k \in 1..Len(request.arguments) :
                   command[2 + k] = Transmitted(request.arguments[k])

\* C15 witness: a run-function call with the string 'True' and the boolean
\* True went through the companion and returned.
C15_Witness ==
    /\ cpc = "returned"
    /\ ret.kind = "returned"
    /\ request.op = "run"
    /\ request.arguments = <<PyStr("True"), PyBool(TRUE)>>
    /\ command = <<"device", "f", "'True'", "True">>

\* C16: a backdoor call whose companion was terminated because it did not
\* exit with status 0 within the polls ends in an error.
C16_HangReportsFailure ==
    (cpc = "returned" /\ killed) => ret.kind # "returned"

\* C17: every call that waits on an external process returns, whether or
\* not the process ever exits.
C17_EveryCallReturns == CallInProgress ~> ~CallInProgress


\* the step on which backdoor_command leaves its polling loop: it left
\* early exactly when the poll saw exit status 0, after at most
\* CompanionPolls polls, and p.terminate() was called exactly when no poll
\* saw status 0, a companion that exited with another status included
LoopLeft ==
    (cpc = "polling" /\ cpc' = "returned") =>
        /\ companion # "exit0" => polls = CompanionPolls
        /\ killed' <=> companion # "exit0"
        /\ killed' => companion' \in {"terminated", "exit1"}
        /\ ~killed' => companion' = companion

\* C25 as stated: ... and the call then returns the lines read, stripped.
C25_PolledThenReturnsLines ==
    /\ [](polls <= CompanionPolls)
    /\ [][LoopLeft]_vars
    /\ [][(cpc = "polling" /\ cpc' = "returned") =>
             /\ ret'.kind = "returned"
             /\ ret'.lines = [k \in 1..Len(output') |-> output'[k].text]]_vars

\* C25 amended: ... and the call then returns the lines read, stripped,
\* unless one of them holds "failed to create process": then it raises
\* IOError.
C25_PolledThenReturnsLinesOrIOError ==
    /\ [](polls <= CompanionPolls)
    /\ [][LoopLeft]_vars
    /\ [][(cpc = "polling" /\ cpc' = "returned") =>
             IF \E k \in 1..Len(output') : output'[k].text = "failed to create process"
             THEN ret'.kind = "IOError"
             ELSE /\ ret'.kind = "returned"
                  /\ ret'.lines = [k \in 1..Len(output') |-> output'[k].text]]_vars

\* C25 witness: a companion that had exited with status 1 was terminated
\* after the last poll and the line it wrote was returned stripped.
C25_Witness ==
    /\ cpc = "returned"
    /\ killed
    /\ companion = "exit1"
    /\ output = <<Line(" ", "v1", "\n")>>
    /\ ret = [kind |-> "returned", lines |-> <<"v1">>]

(***************************************************************************)
(* Properties of the backdoor                                              *)
(***************************************************************************)
\* has _open of this LewisLauncher completed?
Opened(o) == IF o \in ChildLaunchers THEN phase["multi"] \in {"open", "closed"}
             ELSE phase[o] \in {"open", "closed"}

Alternates(seq) ==
    \A i \in 1..Len(seq) :
        seq[i] = IF i % 2 = 1 THEN "disconnect_device" ELSE "connect_device"

\* C9: on an opened LewisLauncher the simulation commands sent alternate,
\* starting with disconnect_device, and a command is sent only by a call
\* whose requested state differs from the recorded connected flag.
C9_ToggleIdempotent ==
    /\ [](\A o \in LewisLaunchers \cup ChildLaunchers : Opened(o) => Alternates(sent[o]))
    /\ [][\A o \in LewisLaunchers \cup ChildLaunchers :
             (Opened(o) /\ sent'[o] # sent[o])
             => /\ Len(sent'[o]) = Len(sent[o]) + 1
                /\ IF sent'[o][Len(sent'[o])] = "disconnect_device"
                   THEN _connected[o] = "True" /\ _connected'[o] = "False"
                   ELSE _connected[o] = "False" /\ _connected'[o] = "True"
         ]_vars

\* C9 witness: an open launcher was disconnected, reconnected and
\* disconnected again, and the last call was a disconnect.
C9_Witness ==
    /\ phase["lewis1"] = "open"
    /\ sent["lewis1"] = <<"disconnect_device", "connect_device", "disconnect_device">>
    /\ lastCall = [launcher |-> "lewis1", op |-> "disconnect", outcome |-> "returned"]

\* C10: every backdoor operation on a command-line launcher ends in an
\* error, whatever the launcher's phase, and leaves its process, log file
\* and registry entry alone.
C10_CommandLineBackdoorFails ==
    [][\A l \in CommandLineLaunchers, op \in Ops, spawn \in {"ok", "spawn_fails"} :
          backdoor(l, op, spawn)
          => /\ lastCall'.outcome \in {"ValueError"}
             /\ UNCHANGED <<_process, _logFile, descendants, RunningEmulators, phase>>
      ]_vars

\* C10 witness: a backdoor get on the closed beckhoff launcher failed.
C10_Witness ==
    /\ phase["beckhoff"] = "closed"
    /\ lastCall = [launcher |-> "beckhoff", op |-> "get", outcome |-> "ValueError"]

\* C18: a MultiLewisLauncher backdoor call with launcher address a acts
\* on the child registered at a and on no other object: every other
\* object keeps its device state, connected flag, process, log file and
\* sent commands.  A call with an address that has no child ends in an
\* error and changes none of these for any object.  (The operation of a
\* step is the one the step records in lastCall.)
C18_RoutedByAddress ==
    [][\A m \in MultiLaunchers \cap constructed, spawn \in {"ok", "spawn_fails"} :
          \A a \in Addresses(m) :
             MultiBackdoor(m, a, lastCall'.op, spawn)
             => IF a \in 1..Len(emulator_launchers(m))
                THEN /\ lastCall'.launcher = emulator_launchers(m)[a]
                     /\ \A o \in Objects \ {emulator_launchers(m)[a]} :
                           /\ deviceState'[o] = deviceState[o]
                           /\ _connected'[o] = _connected[o]
                           /\ sent'[o] = sent[o]
                     /\ UNCHANGED <<_process, _logFile>>
                ELSE /\ lastCall'.outcome = "KeyError"
                     /\ UNCHANGED <<deviceState, _connected, sent, _process, _logFile>>
      ]_vars

\* C18 witness: on the open multi launcher the second child was
\* disconnected and then had a value set; the first child is untouched.
C18_Witness ==
    /\ phase["multi"] = "open"
    /\ lastCall = [launcher |-> "child2", op |-> "set", outcome |-> "returned"]
    /\ deviceState["child2"] = "v1" /\ _connected["child2"] = "False"
    /\ sent["child2"] = <<"disconnect_device">>
    /\ deviceState["child1"] = None /\ _connected["child1"] = "True"
    /\ sent["child1"] = <<>>

\* C19: the NullEmulatorLauncher never has a process or a log file, its
\* __enter__ and __exit__ raise nothing of their own, and every backdoor
\* call on it, backdoor_command included, returns.
C19_NullLauncherNeverRaises ==
    \A l \in NullLaunchers :
        /\ _process[l] = None /\ _logFile[l] = None
        /\ raised[l] = bodyExc[l]
        /\ lastCall.launcher = l => lastCall.outcome = "returned"

(***************************************************************************)
(* Properties of backdoor_simulate_disconnected_device                     *)
(***************************************************************************)
\* C30: the block issues a set to False on entry and, when that set
\* returned, exactly one set to True when the block is left, whether the
\* body returned or raised, so that the last set issued for the property
\* after the block is to True; when the set to False raised, no set to
\* True is issued; and no step of the context manager changes the
\* connected flag or depends on it.
C30_DisconnectedThenRestored ==
    /\ [](/\ \A k \in DOMAIN propertySets :
                /\ propertySets[k].value = "True"
                      => /\ k > 1
                         /\ propertySets[k - 1] = [value |-> "False", outcome |-> "returned"]
                /\ propertySets[k] = [value |-> "False", outcome |-> "returned"]
                      => IF k = Len(propertySets) THEN simpc = "inside"
                         ELSE propertySets[k + 1].value = "True"
          /\ simpc = "inside"
                => propertySets[Len(propertySets)] = [value |-> "False", outcome |-> "returned"]
          /\ simpc = "exited" => propertySets[Len(propertySets)].value = "True"
          /\ simpc = "entry_failed"
                => /\ propertySets[Len(propertySets)].value = "False"
                   /\ propertySets[Len(propertySets)].outcome # "returned"
                   /\ simRaised = propertySets[Len(propertySets)].outcome)
    /\ [][/\ (simpc' # simpc \/ propertySets' # propertySets) => _connected' = _connected
          /\ (simpc # "inside" /\ blocks' = blocks + 1)
                => /\ Len(propertySets') = Len(propertySets) + 1
                   /\ propertySets'[Len(propertySets')].value = "False"
          /\ (simpc = "inside" /\ simpc' = "exited")
                => /\ Len(propertySets') = Len(propertySets) + 1
                   /\ propertySets'[Len(propertySets')].value = "True"]_vars

\* C30 witness: on an open Lewis launcher whose connected flag already was
\* False, a block whose body raised was left with the set to True issued,
\* and a second block failed at its set to False and issued nothing more.
C30_Witness ==
    /\ _connected["lewis1"] = "False"
    /\ simpc = "entry_failed"
    /\ simRaised = "OSError"
    /\ Len(propertySets) = 3
    /\ propertySets[1] = [value |-> "False", outcome |-> "returned"]
    /\ propertySets[2] = [value |-> "True", outcome |-> "returned"]
    /\ propertySets[3] = [value |-> "False", outcome |-> "OSError"]

(***************************************************************************)
(* Properties of the polling primitive                                     *)
(***************************************************************************)
Max(a, b) == IF a > b THEN a ELSE b

\* the poll of _wait_for_emulator_lambda that saw the condition hold, taken
\* at delay D = lastEval.at < T, with T > 0
SatisfiedBeforeTimeout ==
    /\ call.primitive = "emulator"
    /\ timeout > 0
    /\ lastEval.outcome = "satisfied"
    /\ lastEval.at < timeout

\* C5 as stated: that poll ends the wait with success, with no further
\* evaluation or sleep (none at all before it when D = 0), and the elapsed
\* time is at least D and less than T plus one poll interval.
C5_SuccessWithinPollInterval ==
    SatisfiedBeforeTimeout =>
        /\ pc = "done" /\ result.kind = "success"
        /\ lastEval.inLoop
        /\ evaluations = sleeps + 1
        /\ (lastEval.at = 0 => sleeps = 0)
        /\ now >= lastEval.at
        /\ now < timeout + PollTicks

\* C5 amended: the elapsed time is at least D and less than T plus the
\* time that poll's own evaluation took.
C5_SuccessAtThatPoll ==
    SatisfiedBeforeTimeout =>
        /\ pc = "done" /\ result.kind = "success"
        /\ lastEval.inLoop
        /\ evaluations = sleeps + 1
        /\ (lastEval.at = 0 => sleeps = 0)
        /\ now >= lastEval.at
        /\ now < timeout + lastEval.took

\* C5 witness: the condition held at a poll taken after a sleep, and that
\* evaluation took longer than a poll interval.
C5_Witness ==
    /\ SatisfiedBeforeTimeout
    /\ pc = "done"
    /\ lastEval.at > 0
    /\ lastEval.took > PollTicks

\* an emulator assertion ended in AssertionError
AssertionFailed ==
    /\ call.primitive = "emulator"
    /\ pc = "done"
    /\ result.kind = "AssertionError"

\* C6 as stated: failure is reported at an elapsed time in [T, T + one poll
\* interval), by the evaluation made after the timeout, with the value that
\* evaluation read.
C6_FailureWithinPollInterval ==
    AssertionFailed =>
        /\ now >= timeout
        /\ now < timeout + PollTicks
        /\ ~lastEval.inLoop
        /\ result.value = lastEval.read

\* C6 amended: the final evaluation starts less than one poll interval plus
\* the duration of the last in-loop evaluation after max(T, 0), and failure
\* is reported when it ends.
C6_FailureAfterTimeout ==
    AssertionFailed =>
        /\ now >= timeout
        /\ lastEval.at >= timeout
        /\ lastEval.at < Max(timeout, 0) + PollTicks + tookInLoop
        /\ now = lastEval.at + lastEval.took
        /\ ~lastEval.inLoop
        /\ result.value = lastEval.read

\* C6 witness: after a slow poll inside the loop, the final evaluation
\* starts more than a poll interval after T, reads v2 and reports it.
C6_Witness ==
    /\ AssertionFailed
    /\ timeout > 0
    /\ sleeps > 0
    /\ tookInLoop > PollTicks
    /\ lastEval.at >= timeout + PollTicks
    /\ lastEval.read = "v2"
    /\ result.value = "v2"

\* C7: K unreachable polls followed by a satisfied evaluation give success,
\* each unreachable poll having been followed by one sleep; an unreachable
\* poll inside the loop never ends the wait.
C7_TransientUnreachable ==
    /\ (call.primitive = "emulator" /\ lastEval.outcome = "satisfied"
          /\ unreachable = evaluations - 1)
       => /\ pc = "done" /\ result.kind = "success"
          /\ sleeps = unreachable
    /\ (call.primitive = "emulator" /\ lastEval.outcome = "unreachable" /\ lastEval.inLoop)
       => /\ pc = "sleep" \/ sleeps = evaluations
          /\ pc # "done"

\* C7 witness: two unreachable polls, then success.
C7_Witness ==
    /\ call.primitive = "emulator"
    /\ pc = "done"
    /\ result.kind = "success"
    /\ unreachable = 2
    /\ evaluations = 3

C20_DefaultTimeoutEveryLauncher ==
    (pc # "idle" /\ call.primitive = "emulator" /\ ~call.given) =>
        /\ timeout = DefaultTimeout
        /\ result.kind # "NoDefaultTimeout"
        /\ pc = "done" => evaluations >= 1

\* the predicate raised on the last evaluation of an emulator assertion
PredicateRaised ==
    /\ call.primitive = "emulator"
    /\ lastEval.outcome = "predicate_raises"

\* C21: an exception raised by the predicate on a poll does not end the
\* wait: the call goes on to sleep and poll again, a following poll that
\* satisfies the condition ends it with success, and the exception shows
\* only as the AssertionError message of the evaluation made after the
\* timeout; nothing else leaves the assertion because of it.
C21_PredicateExceptionRetried ==
    /\ [](PredicateRaised =>
             /\ lastEval.inLoop =>
                   /\ pc \in {"sleep", "poll", "last"}
                   /\ result.kind = "running"
             /\ ~lastEval.inLoop =>
                   /\ pc = "done"
                   /\ result.kind = "AssertionError"
                   /\ result.value = lastEval.read
                   /\ lastEval.at >= timeout)
    /\ [][(PredicateRaised /\ lastEval.inLoop /\ lastEval'.outcome = "satisfied")
             => (pc' = "done" /\ result'.kind = "success")]_vars

\* C21 witness: the predicate raised on a poll, the call slept and is about
\* to poll again before the timeout.
C21_Witness ==
    /\ PredicateRaised
    /\ lastEval.inLoop
    /\ pc = "poll"
    /\ sleeps >= 1
    /\ current_time < timeout

\* C27: the unable-to-connect exception of a poll made inside the loop of
\* _wait_for_emulator_lambda never ends the call; the caller gets it only
\* from the evaluation made after the timeout, and then as the exception
\* itself, not as an AssertionError.
C27_UnreachableOnlyFromLastTry ==
    call.primitive = "emulator" =>
        /\ (lastEval.outcome = "unreachable" /\ lastEval.inLoop)
              => (pc # "done" /\ result.kind = "running")
        /\ result.kind = "UnableToConnect"
              => /\ pc = "done"
                 /\ lastEval.outcome = "unreachable"
                 /\ ~lastEval.inLoop
                 /\ lastEval.at >= timeout
        /\ (pc = "done" /\ lastEval.outcome = "unreachable")
              => result.kind = "UnableToConnect"

\* C27 witness: the accessor was unreachable on two polls and on the final
\* evaluation; the exception of the final evaluation reached the caller.
C27_Witness ==
    /\ call.primitive = "emulator"
    /\ pc = "done"
    /\ result.kind = "UnableToConnect"
    /\ unreachable = 3
    /\ evaluations = 3
    /\ sleeps = 2

\* C28: in _wait_for_pv_lambda an exception other than unable-to-connect
\* raised on a poll ends the wait at once with the message "Exception in
\* function ...", with no sleep or poll after it, while unable-to-connect
\* on a poll is swallowed and the loop goes on.
C28_PvExceptionEndsWait ==
    call.primitive = "pv" =>
        /\ (lastEval.outcome = "error" /\ lastEval.inLoop)
              => /\ pc = "done"
                 /\ result = [kind |-> "AssertionError", value |-> "Exception in function"]
                 /\ evaluations = sleeps + 1
        /\ (lastEval.outcome = "unreachable" /\ lastEval.inLoop)
              => /\ pc \in {"sleep", "poll", "last"}
                 /\ result.kind = "running"

\* C28 witness: the PV was unreachable on the first poll and the checked
\* function raised on the second, which ended the wait.
C28_Witness ==
    /\ call.primitive = "pv"
    /\ pc = "done"
    /\ lastEval.inLoop
    /\ lastEval.outcome = "error"
    /\ unreachable = 1
    /\ evaluations = 2
    /\ sleeps = 1
    /\ now < timeout

\* C23: once a poll made inside the timeout window has read the restricted
\* value, the is_not assertion does not go on to succeed.
C23_NeverTheRestrictedValue ==
    [][(lastEval.inLoop /\ lastEval.outcome = "unsatisfied"
          /\ lastEval.read = restricted_value)
         => result'.kind # "success"]_vars

\* C24: assert_pv_value_over_time returns normally only when the comparator
\* returned true, and raises AssertionError when it returned false or
\* failed.
C24_OverTimeRaisesAssertionError ==
    overTime.outcome # None =>
        LET held == /\ overTime.comparator \in {"gt", "lt", "eq"}
                    /\ Compare(overTime.comparator, overTime.pv[1], overTime.pv[2])
        IN  /\ (overTime.outcome = "returned") <=> held
            /\ ~held => overTime.outcome = "AssertionError"

====
